---- MODULE Spec2Model ----
(***************************************************************************)
(* Formula language of eternalsad/formula: lexer, recursive-descent        *)
(* parser, AST evaluation, the tagged-tree boundary and the validator.     *)
(*                                                                         *)
(* Text is a sequence of runes; a rune is its Unicode code point, as in    *)
(* Go.  Positions are 0-based as in the source, so runes[pos + 1] is the   *)
(* rune the source calls l.runes[l.pos].  Numbers (float64 in the source)  *)
(* are exact rationals [n, d] in lowest terms with d > 0.                  *)
(***************************************************************************)
EXTENDS Integers, Sequences, FiniteSets, TLC

(***************************************************************************)
(* Runes and the unicode / strings helpers the source calls                *)
(***************************************************************************)
SP == 32
BANG == 33
PERCENT == 37
LPAREN == 40
RPAREN == 41
STAR == 42
PLUS == 43
COMMA == 44
MINUS == 45
DOT == 46
SLASH == 47
LT == 60
EQ == 61
GT == 62
CARET == 94
USCORE == 95

Range(s) == {s[i] : i \in DOMAIN s}

IsDigit(r) == r \in 48..57 \/ r \in 1632..1641

IsLetter(r) ==
    \/ r \in 65..90
    \/ r \in 97..122
    \/ r \in 192..214
    \/ r \in 216..246
    \/ r \in 248..687
    \/ r \in 1024..1153

IsSpace(r) == r \in {9, 10, 11, 12, 13, 32, 133, 160}

IsCyrillic(r) == r \in 1024..1156

\* fault variant of ToUpperRune: upper-cases ASCII letters only
ToUpperAscii(r) == IF r \in 97..122 THEN r - 32 ELSE r

ToUpperRune(r) ==
    IF r \in 97..122 \/ r \in 1072..1103 \/ (r \in 224..254 /\ r # 247)
    THEN r - 32
    ELSE IF r \in 1104..1119 THEN r - 80 ELSE r

ToLowerRune(r) ==
    IF r \in 65..90 \/ r \in 1040..1071 \/ (r \in 192..222 /\ r # 215)
    THEN r + 32
    ELSE IF r \in 1024..1039 THEN r + 80 ELSE r

ToUpper(s) == [i \in DOMAIN s |-> ToUpperRune(s[i])]

ToLower(s) == [i \in DOMAIN s |-> ToLowerRune(s[i])]

\* number of bytes of the UTF-8 encoding of a rune (len() of a Go string
\* counts these)
ByteLen(r) == IF r < 128 THEN 1 ELSE IF r < 2048 THEN 2 ELSE 3

\* len(s) of a Go string: the bytes of all its runes, counted one by one
ByteLenOf(s) ==
    Cardinality({e \in (DOMAIN s) \X (1..3) : e[2] <= ByteLen(s[e[1]])})

RECURSIVE TrimLeft(_)
TrimLeft(s) == IF s # <<>> /\ IsSpace(Head(s)) THEN TrimLeft(Tail(s)) ELSE s

RECURSIVE TrimRight(_)
TrimRight(s) ==
    IF s # <<>> /\ IsSpace(s[Len(s)])
    THEN TrimRight(SubSeq(s, 1, Len(s) - 1))
    ELSE s

TrimSpace(s) == TrimRight(TrimLeft(s))

\* the concatenation of a sequence of sequences
RECURSIVE Cat(_)
Cat(ss) == IF ss = <<>> THEN <<>> ELSE Head(ss) \o Cat(Tail(ss))

(***************************************************************************)
(* Numbers                                                                 *)
(***************************************************************************)
Abs(x) == IF x < 0 THEN -x ELSE x

RECURSIVE GCD(_, _)
GCD(a, b) == IF b = 0 THEN a ELSE GCD(b, a % b)

Rat(n, d) ==
    LET g == GCD(Abs(n), Abs(d))
        s == IF d < 0 THEN -1 ELSE 1
    IN  [n |-> s * (n \div g), d |-> s * (d \div g)]

Num(i) == [n |-> i, d |-> 1]

Zero == Num(0)
One == Num(1)

RAdd(x, y) == Rat(x.n * y.d + y.n * x.d, x.d * y.d)
RSub(x, y) == Rat(x.n * y.d - y.n * x.d, x.d * y.d)
RMul(x, y) == Rat(x.n * y.n, x.d * y.d)
RDiv(x, y) == Rat(x.n * y.d, x.d * y.n)
RNeg(x) == [n |-> -x.n, d |-> x.d]
RLess(x, y) == x.n * y.d < y.n * x.d

RECURSIVE IntPow(_, _)
IntPow(x, k) == IF k = 0 THEN One ELSE RMul(x, IntPow(x, k - 1))

\* math.Pow for an integer exponent (the only exponents the inputs of this
\* model produce); Pow(0, negative) is +Inf, written 1/0
Pow(x, y) ==
    IF y.n >= 0 THEN IntPow(x, y.n)
    ELSE IF x.n = 0 THEN [n |-> 1, d |-> 0]
    ELSE RDiv(One, IntPow(x, -y.n))

\* math.Mod: x - y * trunc(x / y), the result has the sign of x
Mod(x, y) ==
    LET q  == RDiv(x, y)
        aq == Abs(q.n) \div q.d
        t  == IF q.n < 0 THEN -aq ELSE aq
    IN  RSub(x, RMul(y, Num(t)))

(***************************************************************************)
(* Errors: the format string of the fmt.Errorf / errors.New call and the   *)
(* text interpolated into it; wrapping prefixes the chain                  *)
(***************************************************************************)
NoErr == [msg |-> <<>>, arg |-> <<>>]

Errorf(m, a) == [msg |-> <<m>>, arg |-> a]

Wrap(m, e) == [msg |-> <<m>> \o e.msg, arg |-> e.arg]

IsErr(e) == e.msg # <<>>

(***************************************************************************)
(* Lexer  (src/parser.go)                                                  *)
(***************************************************************************)
TokenNumber == "TokenNumber"
TokenVariable == "TokenVariable"
TokenOperator == "TokenOperator"
TokenParenOpen == "TokenParenOpen"
TokenParenClose == "TokenParenClose"
TokenComma == "TokenComma"
TokenFunction == "TokenFunction"
TokenEOF == "TokenEOF"
TokenThen == "TokenThen"
TokenIf == "TokenIf"
TokenElse == "TokenElse"
TokenOr == "TokenOr"
TokenAnd == "TokenAnd"

Token(t, v, p) == [Type |-> t, Value |-> v, Pos |-> p]

\* keyword spellings, upper case
KwIF == <<73, 70>>
KwTHEN == <<84, 72, 69, 78>>
KwELSE == <<69, 76, 83, 69>>
KwOR == <<79, 82>>
KwAND == <<65, 78, 68>>
KwESLI == <<1045, 1057, 1051, 1048>>
KwTOGDA == <<1058, 1054, 1043, 1044, 1040>>
KwINACHE == <<1048, 1053, 1040, 1063, 1045>>
KwILI == <<1048, 1051, 1048>>
KwI == <<1048>>

normalizeSpaces(runes) ==
    LET n == Len(runes)
        keep(i) ==
            \/ runes[i] # SP
            \/ /\ i > 1
               /\ i < n
               /\ \/ IsLetter(runes[i - 1]) /\ IsDigit(runes[i + 1])
                  \/ IsDigit(runes[i - 1]) /\ IsLetter(runes[i + 1])
                  \/ IsLetter(runes[i - 1]) /\ IsLetter(runes[i + 1])
        kept == SelectSeq([i \in 1..n |-> <<i, runes[i]>>], LAMBDA e : keep(e[1]))
    IN  [i \in DOMAIN kept |-> kept[i][2]]

\* the rune slice of a new Lexer; its pos is 0
NewLexer(input) == normalizeSpaces(TrimSpace(input))

RECURSIVE SkipSpace(_, _)
SkipSpace(runes, pos) ==
    IF pos < Len(runes) /\ IsSpace(runes[pos + 1])
    THEN SkipSpace(runes, pos + 1)
    ELSE pos

RECURSIVE NumberEnd(_, _)
NumberEnd(runes, pos) ==
    IF pos < Len(runes) /\ (IsDigit(runes[pos + 1]) \/ runes[pos + 1] = DOT)
    THEN NumberEnd(runes, pos + 1)
    ELSE pos

\* the Number token over runes[start..end) and the cursor after it
NumberToken(runes, start, end) ==
    [tok |-> Token(TokenNumber, SubSeq(runes, start + 1, end), start), pos |-> end]

readNumber(runes, start) == NumberToken(runes, start, NumberEnd(runes, start))

RECURSIVE IdentifierEnd(_, _)
IdentifierEnd(runes, pos) ==
    IF pos < Len(runes) /\ (IsLetter(runes[pos + 1]) \/ runes[pos + 1] = USCORE)
    THEN IdentifierEnd(runes, pos + 1)
    ELSE pos

\* the switches of readIdentifier on the upper-cased value, then the
\* look-ahead for '(' at tempPos
IdentifierType(runes, upperValue, tempPos) ==
    IF upperValue = KwESLI THEN TokenIf
    ELSE IF upperValue = KwTOGDA THEN TokenThen
    ELSE IF upperValue = KwINACHE THEN TokenElse
    ELSE IF upperValue = KwILI THEN TokenOr
    ELSE IF upperValue = KwI THEN TokenAnd
    ELSE IF upperValue = KwIF THEN TokenIf
    ELSE IF upperValue = KwTHEN THEN TokenThen
    ELSE IF upperValue = KwELSE THEN TokenElse
    ELSE IF upperValue = KwOR THEN TokenOr
    ELSE IF upperValue = KwAND THEN TokenAnd
    ELSE IF tempPos < Len(runes) /\ runes[tempPos + 1] = LPAREN THEN TokenFunction
    ELSE TokenVariable

\* the token of the identifier value read over runes[start..end)
IdentifierToken(runes, start, end, value) ==
    [tok |-> Token(IdentifierType(runes, ToUpper(value), SkipSpace(runes, end)),
                   value, start),
     pos |-> end]

\* readIdentifier once the end of the identifier is known
IdentifierUpTo(runes, start, end) ==
    IdentifierToken(runes, start, end, SubSeq(runes, start + 1, end))

readIdentifier(runes, start) == IdentifierUpTo(runes, start, IdentifierEnd(runes, start))

TwoCharOps == {<<GT, EQ>>, <<LT, EQ>>, <<EQ, EQ>>, <<BANG, EQ>>}

\* fault variant of readOperator: a one-character operator leaves the cursor
\* where it was
readOperatorStuck(runes, start) ==
    IF start + 1 < Len(runes) /\ SubSeq(runes, start + 1, start + 2) \in TwoCharOps
    THEN [tok |-> Token(TokenOperator, SubSeq(runes, start + 1, start + 2), start),
          pos |-> start + 2]
    ELSE [tok |-> Token(TokenOperator, <<runes[start + 1]>>, start),
          pos |-> start]

readOperator(runes, start) ==
    IF start + 1 < Len(runes) /\ SubSeq(runes, start + 1, start + 2) \in TwoCharOps
    THEN [tok |-> Token(TokenOperator, SubSeq(runes, start + 1, start + 2), start),
          pos |-> start + 2]
    ELSE [tok |-> Token(TokenOperator, <<runes[start + 1]>>, start),
          pos |-> start + 1]

OperatorRunes == {PLUS, MINUS, STAR, SLASH, GT, LT, EQ, BANG}

RECURSIVE NextToken(_, _), ScanToken(_, _)

\* Lexer.NextToken once the leading whitespace is skipped and the cursor is
\* at pos
ScanToken(runes, pos) ==
    IF pos >= Len(runes) THEN [tok |-> Token(TokenEOF, <<>>, pos), pos |-> pos]
    ELSE IF IsDigit(runes[pos + 1]) THEN readNumber(runes, pos)
    ELSE IF IsLetter(runes[pos + 1]) THEN readIdentifier(runes, pos)
    ELSE IF runes[pos + 1] \in OperatorRunes THEN readOperator(runes, pos)
    ELSE IF runes[pos + 1] = LPAREN
    THEN [tok |-> Token(TokenParenOpen, <<LPAREN>>, pos), pos |-> pos + 1]
    ELSE IF runes[pos + 1] = RPAREN
    THEN [tok |-> Token(TokenParenClose, <<RPAREN>>, pos), pos |-> pos + 1]
    ELSE IF runes[pos + 1] = COMMA
    THEN [tok |-> Token(TokenComma, <<COMMA>>, pos), pos |-> pos + 1]
    ELSE NextToken(runes, pos + 1)

\* one call of Lexer.NextToken with the cursor at pos0: the token returned
\* and the cursor afterwards
NextToken(runes, pos0) == ScanToken(runes, SkipSpace(runes, pos0))

\* all tokens up to and including the first EOF (what a loop over NextToken
\* sees)
RECURSIVE TokensFrom(_, _), TokensAfter(_, _)
TokensAfter(runes, r) ==
    IF r.tok.Type = TokenEOF THEN <<r.tok>>
    ELSE <<r.tok>> \o TokensFrom(runes, r.pos)

TokensFrom(runes, pos) == TokensAfter(runes, NextToken(runes, pos))

Tokenize(input) == TokensFrom(NewLexer(input), 0)

KindsOf(ts) == [i \in DOMAIN ts |-> ts[i].Type]

TokenKinds(input) == KindsOf(Tokenize(input))

(***************************************************************************)
(* AST nodes  (src/ast.go).  A Go string is a rune sequence, so operators  *)
(* and names are rune sequences too.                                       *)
(***************************************************************************)
NodeTypeLiteral == "literal"
NodeTypeVariable == "variable"
NodeTypeOperation == "operation"
NodeTypeConditional == "conditional"
NodeTypeComparison == "comparison"
NodeTypeFunction == "function"
NodeTypeLogical == "logical"
NodeTypeUnary == "unary"

\* a nil ASTNode
Nil == [type |-> "nil"]

LiteralNode(v) == [type |-> NodeTypeLiteral, Value |-> v]
VariableNode(name) == [type |-> NodeTypeVariable, Name |-> name]
OperationNode(op, l, r) ==
    [type |-> NodeTypeOperation, Operator |-> op, Left |-> l, Right |-> r]
ComparisonNode(op, l, r) ==
    [type |-> NodeTypeComparison, Operator |-> op, Left |-> l, Right |-> r]
LogicalNode(op, l, r) ==
    [type |-> NodeTypeLogical, Operator |-> op, Left |-> l, Right |-> r]
ConditionalNode(c, t, e) ==
    [type |-> NodeTypeConditional, Condition |-> c, Then |-> t, Else |-> e]
UnaryNode(op, x) == [type |-> NodeTypeUnary, Operator |-> op, Operand |-> x]
FunctionNode(name, args) == [type |-> NodeTypeFunction, Name |-> name, Args |-> args]

OpAdd == <<PLUS>>
OpSub == <<MINUS>>
OpMul == <<STAR>>
OpDiv == <<SLASH>>
OpPow == <<CARET>>
OpPow2 == <<STAR, STAR>>
OpMod == <<PERCENT>>
OpEq == <<EQ>>
OpEqEq == <<EQ, EQ>>
OpNe == <<BANG, EQ>>
OpGt == <<GT>>
OpLt == <<LT>>
OpGe == <<GT, EQ>>
OpLe == <<LT, EQ>>

(***************************************************************************)
(* Parser  (src/parser.go).  The parser state ps is the lexer's cursor and *)
(* the current token; every parse function returns the node, the error and *)
(* the state it leaves.                                                    *)
(***************************************************************************)
\* the parser state after a NextToken that returned r
Advance(r) == [pos |-> r.pos, cur |-> r.tok]

\* Parser.nextToken
nextToken(runes, ps) == Advance(NextToken(runes, ps.pos))

Ok(node, ps) == [node |-> node, err |-> NoErr, ps |-> ps]
Fail(err, ps) == [node |-> Nil, err |-> err, ps |-> ps]

\* strconv.ParseFloat on the text of a Number token (digits and dots,
\* starting with a digit): at most one dot, ASCII digits only
RECURSIVE DigitsValue(_)
DigitsValue(ds) ==
    IF ds = <<>> THEN 0
    ELSE 10 * DigitsValue(SubSeq(ds, 1, Len(ds) - 1)) + (ds[Len(ds)] - 48)

RECURSIVE Pow10(_)
Pow10(k) == IF k = 0 THEN 1 ELSE 10 * Pow10(k - 1)

ParseFloat(text) ==
    LET dots == {i \in DOMAIN text : text[i] = DOT}
        bad  == {i \in DOMAIN text : text[i] # DOT /\ text[i] \notin 48..57}
    IN  IF text = <<>> \/ bad # {} \/ Cardinality(dots) > 1 \/ text = <<DOT>>
        THEN [ok |-> FALSE, val |-> Zero]
        ELSE IF dots = {}
        THEN [ok |-> TRUE, val |-> Num(DigitsValue(text))]
        ELSE LET k    == CHOOSE i \in dots : TRUE
                 ip   == SubSeq(text, 1, k - 1)
                 fp   == SubSeq(text, k + 1, Len(text))
             IN  [ok |-> TRUE,
                  val |-> Rat(DigitsValue(ip) * Pow10(Len(fp)) + DigitsValue(fp),
                              Pow10(Len(fp)))]

\* fault variant of isComparisonOp: "==" is taken as well
isComparisonOpWithEqEq(op) == op \in {OpGt, OpLt, OpGe, OpLe, OpEq, OpNe, OpEqEq}

isComparisonOp(op) == op \in {OpGt, OpLt, OpGe, OpLe, OpEq, OpNe}

IsAddSubOp(tok) == tok.Type = TokenOperator /\ tok.Value \in {OpAdd, OpSub}

\* fault variant of IsMulDivOp: + and - taken at the level of * and /
IsArithOp(tok) ==
    tok.Type = TokenOperator /\ tok.Value \in {OpAdd, OpSub, OpMul, OpDiv}

IsMulDivOp(tok) == tok.Type = TokenOperator /\ tok.Value \in {OpMul, OpDiv}

\* `x, err := sub-parse; if err != nil { return nil, err }`, then the rest of
\* the function on the parsed x
Try(r, Rest(_)) == IF IsErr(r.err) THEN Fail(r.err, r.ps) ELSE Rest(r)

\* the same with the error wrapped: fmt.Errorf("<context>: %v", err)
TryWrap(context, r, Rest(_)) ==
    IF IsErr(r.err) THEN Fail(Wrap(context, r.err), r.ps) ELSE Rest(r)

\* The binary levels of the grammar.  The source parses the first operand,
\* then loops: while the current token is an operator of the level it
\* consumes it, parses the next operand and folds it into left.  Here
\* parseXLoop(runes, op, left, ps) parses the operand at ps and folds it into
\* the chain built so far (op = <<>> and left = Nil for the first operand),
\* and XRest is the loop's test on the token after it.
Fold(make, op, left, right) ==
    IF op = <<>> THEN right
    ELSE [type |-> make, Operator |-> op, Left |-> left, Right |-> right]

RECURSIVE parseExpression(_, _), parseIfStatement(_, _), parseLogicalOr(_, _),
          parseLogicalOrLoop(_, _, _, _), LogicalOrRest(_, _, _),
          parseLogicalAnd(_, _), parseLogicalAndLoop(_, _, _, _),
          LogicalAndRest(_, _, _), parseComparison(_, _),
          parseComparisonLoop(_, _, _, _), ComparisonRest(_, _, _),
          parseAddSub(_, _), parseAddSubLoop(_, _, _, _), AddSubRest(_, _, _),
          parseMulDiv(_, _), parseMulDivLoop(_, _, _, _), MulDivRest(_, _, _),
          parseFactor(_, _), parseFunction(_, _), parseIfFunction(_, _)

parseExpression(runes, ps) ==
    IF ps.cur.Type = TokenIf THEN parseIfStatement(runes, ps)
    ELSE parseLogicalOr(runes, ps)

parseIfStatement(runes, ps) ==
    IF ps.cur.Type # TokenIf THEN Fail(Errorf("expected IF", <<>>), ps)
    ELSE
    TryWrap("error parsing IF condition", parseLogicalOr(runes, nextToken(runes, ps)),
      LAMBDA c :
        IF c.ps.cur.Type # TokenThen
        THEN Fail(Errorf("expected THEN after IF condition", <<>>), c.ps)
        ELSE
        TryWrap("error parsing IF then branch",
                parseLogicalOr(runes, nextToken(runes, c.ps)),
          LAMBDA t :
            IF t.ps.cur.Type = TokenElse
            THEN TryWrap("error parsing IF else branch",
                         parseLogicalOr(runes, nextToken(runes, t.ps)),
                   LAMBDA e : Ok(ConditionalNode(c.node, t.node, e.node), e.ps))
            ELSE Ok(ConditionalNode(c.node, t.node, Nil), t.ps)))

parseLogicalOr(runes, ps) == parseLogicalOrLoop(runes, <<>>, Nil, ps)

parseLogicalOrLoop(runes, op, left, ps) ==
    Try(parseLogicalAnd(runes, ps),
        LAMBDA r : LogicalOrRest(runes, Fold(NodeTypeLogical, op, left, r.node), r.ps))

LogicalOrRest(runes, left, ps) ==
    IF ps.cur.Type = TokenOr
    THEN parseLogicalOrLoop(runes, KwOR, left, nextToken(runes, ps))
    ELSE Ok(left, ps)

parseLogicalAnd(runes, ps) == parseLogicalAndLoop(runes, <<>>, Nil, ps)

parseLogicalAndLoop(runes, op, left, ps) ==
    Try(parseComparison(runes, ps),
        LAMBDA r : LogicalAndRest(runes, Fold(NodeTypeLogical, op, left, r.node), r.ps))

LogicalAndRest(runes, left, ps) ==
    IF ps.cur.Type = TokenAnd
    THEN parseLogicalAndLoop(runes, KwAND, left, nextToken(runes, ps))
    ELSE Ok(left, ps)

parseComparison(runes, ps) == parseComparisonLoop(runes, <<>>, Nil, ps)

parseComparisonLoop(runes, op, left, ps) ==
    Try(parseAddSub(runes, ps),
        LAMBDA r : ComparisonRest(runes, Fold(NodeTypeComparison, op, left, r.node), r.ps))

\* fault variant of ComparisonRest: the right side takes the rest of the
\* chain, so comparisons associate to the right
ComparisonRestRight(runes, left, ps) ==
    IF ps.cur.Type = TokenOperator /\ isComparisonOp(ps.cur.Value)
    THEN Try(parseComparison(runes, nextToken(runes, ps)),
             LAMBDA r : Ok(ComparisonNode(ps.cur.Value, left, r.node), r.ps))
    ELSE Ok(left, ps)

ComparisonRest(runes, left, ps) ==
    IF ps.cur.Type = TokenOperator /\ isComparisonOp(ps.cur.Value)
    THEN parseComparisonLoop(runes, ps.cur.Value, left, nextToken(runes, ps))
    ELSE Ok(left, ps)

parseAddSub(runes, ps) == parseAddSubLoop(runes, <<>>, Nil, ps)

parseAddSubLoop(runes, op, left, ps) ==
    Try(parseMulDiv(runes, ps),
        LAMBDA r : AddSubRest(runes, Fold(NodeTypeOperation, op, left, r.node), r.ps))

AddSubRest(runes, left, ps) ==
    IF IsAddSubOp(ps.cur)
    THEN parseAddSubLoop(runes, ps.cur.Value, left, nextToken(runes, ps))
    ELSE Ok(left, ps)

parseMulDiv(runes, ps) == parseMulDivLoop(runes, <<>>, Nil, ps)

parseMulDivLoop(runes, op, left, ps) ==
    Try(parseFactor(runes, ps),
        LAMBDA r : MulDivRest(runes, Fold(NodeTypeOperation, op, left, r.node), r.ps))

MulDivRest(runes, left, ps) ==
    IF IsMulDivOp(ps.cur)
    THEN parseMulDivLoop(runes, ps.cur.Value, left, nextToken(runes, ps))
    ELSE Ok(left, ps)

\* fault variant of parseUnaryOperand: the sign takes a whole additive
\* expression
parseUnaryOperandWide(runes, ps) == parseAddSub(runes, ps)

\* the operand of a unary operator: the source parses a Factor
parseUnaryOperand(runes, ps) == parseFactor(runes, ps)

\* the Number case of parseFactor
NumberFactor(runes, ps, v) ==
    IF ~v.ok THEN Fail(Errorf("invalid number: %s", ps.cur.Value), ps)
    ELSE Ok(LiteralNode(v.val), nextToken(runes, ps))

parseFactor(runes, ps) ==
    IF ps.cur.Type = TokenNumber
    THEN NumberFactor(runes, ps, ParseFloat(ps.cur.Value))
    ELSE IF ps.cur.Type = TokenVariable
    THEN Ok(VariableNode(ps.cur.Value), nextToken(runes, ps))
    ELSE IF ps.cur.Type = TokenFunction
    THEN parseFunction(runes, ps)
    ELSE IF ps.cur.Type = TokenOperator
    THEN IF ps.cur.Value \in {OpAdd, OpSub}
         THEN Try(parseUnaryOperand(runes, nextToken(runes, ps)),
                  LAMBDA o : Ok(UnaryNode(ps.cur.Value, o.node), o.ps))
         ELSE Fail(Errorf("unexpected operator: %s", ps.cur.Value), ps)
    ELSE IF ps.cur.Type = TokenParenOpen
    THEN Try(parseExpression(runes, nextToken(runes, ps)),
             LAMBDA e :
                IF e.ps.cur.Type # TokenParenClose
                THEN Fail(Errorf("expected ')' but got %s", e.ps.cur.Value), e.ps)
                ELSE Ok(e.node, nextToken(runes, e.ps)))
    ELSE Fail(Errorf("unexpected token: %s", ps.cur.Value), ps)

\* fault variant of FunctionBody: a name other than IF becomes a Function node
FunctionBodyCall(runes, funcName, p1) ==
    IF p1.cur.Type # TokenParenOpen
    THEN Fail(Errorf("expected '(' after function name", <<>>), p1)
    ELSE IF ToUpper(funcName) \in {KwIF, KwESLI}
    THEN parseIfFunction(runes, nextToken(runes, p1))
    ELSE Ok(FunctionNode(funcName, <<>>), nextToken(runes, p1))

\* parseFunction once the name is consumed and p1 holds the next token
FunctionBody(runes, funcName, p1) ==
    IF p1.cur.Type # TokenParenOpen
    THEN Fail(Errorf("expected '(' after function name", <<>>), p1)
    ELSE IF ToUpper(funcName) \in {KwIF, KwESLI}
    THEN parseIfFunction(runes, nextToken(runes, p1))
    ELSE Fail(Errorf("unknown function: %s", funcName), nextToken(runes, p1))

parseFunction(runes, ps) == FunctionBody(runes, ps.cur.Value, nextToken(runes, ps))

\* the end of parseIfFunction: the closing parenthesis
CloseIfFunction(runes, node, p) ==
    IF p.cur.Type # TokenParenClose
    THEN Fail(Errorf("expected ')' to close IF function", <<>>), p)
    ELSE Ok(node, nextToken(runes, p))

parseIfFunction(runes, ps) ==
    TryWrap("error parsing IF condition", parseLogicalOr(runes, ps),
      LAMBDA c :
        IF c.ps.cur.Type # TokenComma
        THEN Fail(Errorf("expected ',' after IF condition", <<>>), c.ps)
        ELSE
        TryWrap("error parsing IF then branch",
                parseLogicalOr(runes, nextToken(runes, c.ps)),
          LAMBDA t :
            IF t.ps.cur.Type = TokenComma
            THEN TryWrap("error parsing IF else branch",
                         parseLogicalOr(runes, nextToken(runes, t.ps)),
                   LAMBDA e :
                      CloseIfFunction(runes, ConditionalNode(c.node, t.node, e.node), e.ps))
            ELSE CloseIfFunction(runes, ConditionalNode(c.node, t.node, Nil), t.ps)))

\* NewParser followed by Parser.Parse
NewParser(runes) == nextToken(runes, [pos |-> 0, cur |-> Token(TokenEOF, <<>>, 0)])

Returned(r) == [node |-> r.node, err |-> r.err]

\* fault variant of ParseRunes: a token left over after the expression is an
\* error
StrictReturned(r) ==
    IF ~IsErr(r.err) /\ r.ps.cur.Type # TokenEOF
    THEN [node |-> Nil, err |-> Errorf("unexpected token: %s", r.ps.cur.Value)]
    ELSE Returned(r)

ParseRunesStrict(runes) == StrictReturned(parseExpression(runes, NewParser(runes)))

ParseRunes(runes) == Returned(parseExpression(runes, NewParser(runes)))

Parse(input) == ParseRunes(NewLexer(input))

\* SimpleFormulaParser.ParseString
ParseString(formula) ==
    IF TrimSpace(formula) = <<>>
    THEN [node |-> Nil, err |-> Errorf("empty formula", <<>>)]
    ELSE Parse(TrimSpace(formula))

(***************************************************************************)
(* Evaluation  (src/ast.go).  A Context is [Variables, Functions]:         *)
(* Variables maps names to numbers, Functions maps names to the callable   *)
(* bound to them.  A result is the returned value, the returned error and  *)
(* calls, the sequence of function invocations the evaluation made (kept   *)
(* to state what was and was not invoked).                                 *)
(***************************************************************************)
Res(v, e, c) == [val |-> v, err |-> e, calls |-> c]

\* the callables a context can bind: the five of NewContext, and one that
\* always returns an error
FnAbs == "abs"
FnMax == "max"
FnMin == "min"
FnSum == "sum"
FnAlwaysError == "alwaysError"

RECURSIVE MaxOf(_), MinOf(_), SumOf(_)
MaxOf(args) ==
    IF Len(args) = 1 THEN args[1]
    ELSE LET m == MaxOf(Tail(args)) IN IF RLess(args[1], m) THEN m ELSE args[1]
MinOf(args) ==
    IF Len(args) = 1 THEN args[1]
    ELSE LET m == MinOf(Tail(args)) IN IF RLess(m, args[1]) THEN m ELSE args[1]
SumOf(args) == IF args = <<>> THEN Zero ELSE RAdd(args[1], SumOf(Tail(args)))

\* fn(args): the value and the error the callable returns
CallFn(fn, args) ==
    IF fn = FnAbs
    THEN IF Len(args) # 1
         THEN [val |-> Zero, err |-> Errorf("abs requires exactly 1 argument", <<>>)]
         ELSE [val |-> [n |-> Abs(args[1].n), d |-> args[1].d], err |-> NoErr]
    ELSE IF fn = FnMax
    THEN IF Len(args) = 0
         THEN [val |-> Zero, err |-> Errorf("max requires at least 1 argument", <<>>)]
         ELSE [val |-> MaxOf(args), err |-> NoErr]
    ELSE IF fn = FnMin
    THEN IF Len(args) = 0
         THEN [val |-> Zero, err |-> Errorf("min requires at least 1 argument", <<>>)]
         ELSE [val |-> MinOf(args), err |-> NoErr]
    ELSE IF fn = FnSum
    THEN [val |-> SumOf(args), err |-> NoErr]
    ELSE [val |-> Zero, err |-> Errorf("function failed", <<>>)]

Bool(b) == IF b THEN One ELSE Zero

\* the switch of OperationNode.Evaluate on two evaluated operands
ApplyOperation(op, left, right) ==
    IF op = OpAdd THEN [val |-> RAdd(left, right), err |-> NoErr]
    ELSE IF op = OpSub THEN [val |-> RSub(left, right), err |-> NoErr]
    ELSE IF op = OpMul THEN [val |-> RMul(left, right), err |-> NoErr]
    ELSE IF op = OpDiv
    THEN IF right = Zero
         THEN [val |-> Zero, err |-> Errorf("division by zero", <<>>)]
         ELSE [val |-> RDiv(left, right), err |-> NoErr]
    ELSE IF op \in {OpPow, OpPow2} THEN [val |-> Pow(left, right), err |-> NoErr]
    ELSE IF op = OpMod
    THEN IF right = Zero
         THEN [val |-> Zero, err |-> Errorf("modulo by zero", <<>>)]
         ELSE [val |-> Mod(left, right), err |-> NoErr]
    ELSE [val |-> Zero, err |-> Errorf("unknown operator: %s", op)]

\* the switch of ComparisonNode.Evaluate
ApplyComparison(op, left, right) ==
    IF op = OpEq THEN [val |-> Bool(left = right), err |-> NoErr]
    ELSE IF op = OpNe THEN [val |-> Bool(left # right), err |-> NoErr]
    ELSE IF op = OpGt THEN [val |-> Bool(RLess(right, left)), err |-> NoErr]
    ELSE IF op = OpLt THEN [val |-> Bool(RLess(left, right)), err |-> NoErr]
    ELSE IF op = OpGe THEN [val |-> Bool(~RLess(left, right)), err |-> NoErr]
    ELSE IF op = OpLe THEN [val |-> Bool(~RLess(right, left)), err |-> NoErr]
    ELSE [val |-> Zero, err |-> Errorf("unknown comparison operator: %s", op)]

\* the switch of UnaryNode.Evaluate
ApplyUnary(op, operand) ==
    IF op = OpSub THEN [val |-> RNeg(operand), err |-> NoErr]
    ELSE IF op = OpAdd THEN [val |-> operand, err |-> NoErr]
    ELSE [val |-> Zero, err |-> Errorf("unknown unary operator: %s", op)]

\* fault variant of ShortCircuits: the right operand is always evaluated
NeverShortCircuits(op, left) == FALSE

\* fault variant of ShortCircuits: only OR returns early
ShortCircuitsOrOnly(op, left) == op = KwOR /\ left # Zero

\* whether LogicalNode.Evaluate returns without evaluating n.Right
ShortCircuits(op, left) ==
    \/ op = KwOR /\ left # Zero
    \/ op = KwAND /\ left = Zero

\* fault variant of LookupVariable: an absent name reads as 0
LookupVariableDefaultZero(name, ctx) ==
    IF name \in DOMAIN ctx.Variables
    THEN [val |-> ctx.Variables[name], err |-> NoErr]
    ELSE [val |-> Zero, err |-> NoErr]

\* the map lookup of VariableNode.Evaluate
LookupVariable(name, ctx) ==
    IF name \in DOMAIN ctx.Variables
    THEN [val |-> ctx.Variables[name], err |-> NoErr]
    ELSE [val |-> Zero, err |-> Errorf("variable '%s' not found %w", name)]

\* the switch of OperationNode.Evaluate or ComparisonNode.Evaluate on the
\* operator, with both operands in hand
ApplyBinary(n, left, right) ==
    IF n.type = NodeTypeOperation
    THEN ApplyOperation(n.Operator, left, right)
    ELSE ApplyComparison(n.Operator, left, right)

\* fault variant of BinaryResult: the right operand is evaluated first
BinaryResultRightFirst(n, l, r) ==
    IF IsErr(r.err) THEN Res(Zero, r.err, r.calls)
    ELSE IF IsErr(l.err) THEN Res(Zero, l.err, r.calls \o l.calls)
    ELSE Res(ApplyBinary(n, l.val, r.val).val, ApplyBinary(n, l.val, r.val).err,
             r.calls \o l.calls)

\* OperationNode.Evaluate and ComparisonNode.Evaluate, where l is what the
\* evaluation of the left operand returns and r what that of the right
\* operand returns if the code gets to it
BinaryResult(n, l, r) ==
    IF IsErr(l.err) THEN Res(Zero, l.err, l.calls)
    ELSE IF IsErr(r.err) THEN Res(Zero, r.err, l.calls \o r.calls)
    ELSE Res(ApplyBinary(n, l.val, r.val).val, ApplyBinary(n, l.val, r.val).err,
             l.calls \o r.calls)

\* fault variant of ConditionHolds: only 1 counts as true
ConditionIsOne(condition) == condition = One

\* the test of ConditionalNode.Evaluate on the condition's value
ConditionHolds(condition) == condition # Zero

RECURSIVE Evaluate(_, _), EvaluateArgs(_, _, _, _)

\* fault variant of EvaluateArgs: an argument's error is dropped and the
\* loop goes on with the value returned beside it
RECURSIVE EvaluateArgsNoStop(_, _, _, _)
EvaluateArgsNoStop(args, i, acc, ctx) ==
    IF i > Len(args) THEN [vals |-> acc.vals, err |-> NoErr, calls |-> acc.calls]
    ELSE EvaluateArgsNoStop(args, i + 1,
             [vals |-> Append(acc.vals, Evaluate(args[i], ctx).val),
              calls |-> acc.calls \o Evaluate(args[i], ctx).calls],
             ctx)

\* the loop of FunctionNode.Evaluate over n.Args from index i, with the
\* values and the calls gathered so far
EvaluateArgs(args, i, acc, ctx) ==
    IF i > Len(args) THEN [vals |-> acc.vals, err |-> NoErr, calls |-> acc.calls]
    ELSE LET a == Evaluate(args[i], ctx)
         IN  IF IsErr(a.err)
             THEN [vals |-> acc.vals, err |-> a.err, calls |-> acc.calls \o a.calls]
             ELSE EvaluateArgs(args, i + 1,
                      [vals |-> Append(acc.vals, a.val), calls |-> acc.calls \o a.calls],
                      ctx)

Evaluate(n, ctx) ==
    IF n.type = NodeTypeLiteral THEN Res(n.Value, NoErr, <<>>)
    ELSE IF n.type = NodeTypeVariable
    THEN Res(LookupVariable(n.Name, ctx).val, LookupVariable(n.Name, ctx).err, <<>>)
    ELSE IF n.type \in {NodeTypeOperation, NodeTypeComparison}
    THEN BinaryResult(n, Evaluate(n.Left, ctx), Evaluate(n.Right, ctx))
    ELSE IF n.type = NodeTypeLogical
    THEN LET l == Evaluate(n.Left, ctx)
         IN  IF IsErr(l.err) THEN Res(Zero, l.err, l.calls)
             ELSE IF n.Operator \notin {KwOR, KwAND}
             THEN Res(Zero, Errorf("unknown logical operator: %s", n.Operator), l.calls)
             ELSE IF ShortCircuits(n.Operator, l.val)
             THEN Res(Bool(n.Operator = KwOR), NoErr, l.calls)
             ELSE LET r == Evaluate(n.Right, ctx)
                  IN  IF IsErr(r.err) THEN Res(Zero, r.err, l.calls \o r.calls)
                      ELSE Res(Bool(r.val # Zero), NoErr, l.calls \o r.calls)
    ELSE IF n.type = NodeTypeConditional
    THEN LET c == Evaluate(n.Condition, ctx)
         IN  IF IsErr(c.err) THEN Res(Zero, c.err, c.calls)
             ELSE IF ConditionHolds(c.val)
             THEN LET t == Evaluate(n.Then, ctx) IN Res(t.val, t.err, c.calls \o t.calls)
             ELSE IF n.Else # Nil
             THEN LET e == Evaluate(n.Else, ctx) IN Res(e.val, e.err, c.calls \o e.calls)
             ELSE Res(Zero, NoErr, c.calls)
    ELSE IF n.type = NodeTypeUnary
    THEN LET o == Evaluate(n.Operand, ctx)
         IN  IF IsErr(o.err) THEN Res(Zero, o.err, o.calls)
             ELSE LET a == ApplyUnary(n.Operator, o.val) IN Res(a.val, a.err, o.calls)
    ELSE IF n.type = NodeTypeFunction
    THEN IF n.Name \notin DOMAIN ctx.Functions
         THEN Res(Zero, Errorf("function '%s' not found", n.Name), <<>>)
         ELSE LET as == EvaluateArgs(n.Args, 1, [vals |-> <<>>, calls |-> <<>>], ctx)
              IN  IF IsErr(as.err) THEN Res(Zero, as.err, as.calls)
                  ELSE LET f == CallFn(ctx.Functions[n.Name], as.vals)
                       IN  Res(f.val, f.err,
                               Append(as.calls, [name |-> n.Name, args |-> as.vals]))
    ELSE Res(Zero, Errorf("nil pointer dereference", <<>>), <<>>)

(***************************************************************************)
(* Evaluation by steps.  One Evaluate call is a frame: the node it runs    *)
(* on, named by its path from the root of the shared tree, and the values  *)
(* its children have returned so far.  A step of a frame either calls      *)
(* Evaluate on the next child the code would evaluate, or returns.         *)
(***************************************************************************)
\* the child nodes of a node, in field order
Children(n) ==
    IF n.type \in {NodeTypeOperation, NodeTypeComparison, NodeTypeLogical}
    THEN <<n.Left, n.Right>>
    ELSE IF n.type = NodeTypeConditional THEN <<n.Condition, n.Then, n.Else>>
    ELSE IF n.type = NodeTypeUnary THEN <<n.Operand>>
    ELSE IF n.type = NodeTypeFunction THEN n.Args
    ELSE <<>>

RECURSIVE NodeAt(_, _)
NodeAt(root, path) ==
    IF path = <<>> THEN root ELSE NodeAt(Children(root)[Head(path)], Tail(path))

\* the child (index in Children) the Evaluate method of n calls next when the
\* children before it returned vals without error; 0 when it calls no more
NextChild(n, vals, c) ==
    IF n.type \in {NodeTypeOperation, NodeTypeComparison}
    THEN IF Len(vals) < 2 THEN Len(vals) + 1 ELSE 0
    ELSE IF n.type = NodeTypeLogical
    THEN IF Len(vals) = 0 THEN 1
         ELSE IF Len(vals) = 1 /\ n.Operator \in {KwOR, KwAND}
                 /\ ~ShortCircuits(n.Operator, vals[1])
         THEN 2
         ELSE 0
    ELSE IF n.type = NodeTypeConditional
    THEN IF Len(vals) = 0 THEN 1
         ELSE IF Len(vals) > 1 THEN 0
         ELSE IF ConditionHolds(vals[1]) THEN 2
         ELSE IF n.Else # Nil THEN 3
         ELSE 0
    ELSE IF n.type = NodeTypeUnary
    THEN IF Len(vals) = 0 THEN 1 ELSE 0
    ELSE IF n.type = NodeTypeFunction
    THEN IF n.Name \in DOMAIN c.Functions /\ Len(vals) < Len(n.Args)
         THEN Len(vals) + 1
         ELSE 0
    ELSE 0

\* what the Evaluate method of n returns once it calls no more children
Finish(n, vals, c) ==
    IF n.type = NodeTypeLiteral THEN [val |-> n.Value, err |-> NoErr]
    ELSE IF n.type = NodeTypeVariable THEN LookupVariable(n.Name, c)
    ELSE IF n.type = NodeTypeOperation THEN ApplyOperation(n.Operator, vals[1], vals[2])
    ELSE IF n.type = NodeTypeComparison THEN ApplyComparison(n.Operator, vals[1], vals[2])
    ELSE IF n.type = NodeTypeLogical
    THEN IF n.Operator \notin {KwOR, KwAND}
         THEN [val |-> Zero, err |-> Errorf("unknown logical operator: %s", n.Operator)]
         ELSE IF Len(vals) = 1 THEN [val |-> Bool(n.Operator = KwOR), err |-> NoErr]
         ELSE [val |-> Bool(vals[2] # Zero), err |-> NoErr]
    ELSE IF n.type = NodeTypeConditional
    THEN [val |-> IF Len(vals) = 2 THEN vals[2] ELSE Zero, err |-> NoErr]
    ELSE IF n.type = NodeTypeUnary THEN ApplyUnary(n.Operator, vals[1])
    ELSE IF n.type = NodeTypeFunction
    THEN IF n.Name \notin DOMAIN c.Functions
         THEN [val |-> Zero, err |-> Errorf("function '%s' not found", n.Name)]
         ELSE CallFn(c.Functions[n.Name], vals)
    ELSE [val |-> Zero, err |-> Errorf("nil pointer dereference", <<>>)]

\* the caller e after the frame on top of its stack returned r: every
\* Evaluate method hands a child's error straight to its own caller, so an
\* error unwinds the stack; a value goes to the frame below
AfterReturn(e, r) ==
    IF IsErr(r.err) \/ Len(e.stack) = 1
    THEN [e EXCEPT !.stack = <<>>, !.done = TRUE,
                   !.ret = [val |-> IF IsErr(r.err) THEN Zero ELSE r.val, err |-> r.err]]
    ELSE [e EXCEPT !.stack =
            [SubSeq(e.stack, 1, Len(e.stack) - 1) EXCEPT
                ![Len(e.stack) - 1].vals = Append(@, r.val)]]

\* the caller e after the frame on top of its stack called child k
AfterCall(e, k) ==
    [e EXCEPT !.stack =
        Append(@, [path |-> Append(e.stack[Len(e.stack)].path, k), vals |-> <<>>])]

\* the node at path replaced by x
RECURSIVE ReplaceAt(_, _, _)
ReplaceAt(root, path, x) ==
    IF path = <<>> THEN x
    ELSE IF root.type \in {NodeTypeOperation, NodeTypeComparison, NodeTypeLogical}
    THEN IF Head(path) = 1
         THEN [root EXCEPT !.Left = ReplaceAt(@, Tail(path), x)]
         ELSE [root EXCEPT !.Right = ReplaceAt(@, Tail(path), x)]
    ELSE IF root.type = NodeTypeConditional
    THEN IF Head(path) = 1 THEN [root EXCEPT !.Condition = ReplaceAt(@, Tail(path), x)]
         ELSE IF Head(path) = 2 THEN [root EXCEPT !.Then = ReplaceAt(@, Tail(path), x)]
         ELSE [root EXCEPT !.Else = ReplaceAt(@, Tail(path), x)]
    ELSE IF root.type = NodeTypeUnary
    THEN [root EXCEPT !.Operand = ReplaceAt(@, Tail(path), x)]
    ELSE [root EXCEPT !.Args[Head(path)] = ReplaceAt(@, Tail(path), x)]

\* fault variant of TreeAfterReturn: a Variable node keeps the value it was
\* found to have
TreeAfterReturnCached(root, path, r) ==
    IF NodeAt(root, path).type = NodeTypeVariable /\ ~IsErr(r.err)
    THEN ReplaceAt(root, path, LiteralNode(r.val))
    ELSE root

\* the tree after the Evaluate call on the node at path returned r: no
\* Evaluate method assigns to a field of its node
TreeAfterReturn(root, path, r) == root


(***************************************************************************)
(* Tree-construction boundary  (src/unnamed/part_000).  A document is the  *)
(* decoded JSON object of one node: a function from the field names that   *)
(* are present to their values (a number, a rune sequence, a document, a   *)
(* sequence of documents).  NodeData ignores fields it does not declare.   *)
(***************************************************************************)
Has(d, f) == f \in DOMAIN d

\* json.Unmarshal of an absent (empty) RawMessage fails
ErrEndOfJSON == Errorf("unexpected end of JSON input", <<>>)

\* the index of a failing argument is part of the message
WrapArg(i, e) ==
    [msg |-> <<"error parsing function argument %d: %v", ToString(i)>> \o e.msg,
     arg |-> e.arg]

RECURSIVE UnmarshalASTNode(_), UnmarshalField(_, _), UnmarshalArgs(_, _, _)

\* UnmarshalASTNode applied to the RawMessage of field f
UnmarshalField(d, f) ==
    IF Has(d, f) THEN UnmarshalASTNode(d[f]) ELSE [node |-> Nil, err |-> ErrEndOfJSON]

\* the loop over nodeData.Args from index i (1-based here, i - 1 in the source)
UnmarshalArgs(args, i, acc) ==
    IF i > Len(args) THEN [nodes |-> acc, err |-> NoErr]
    ELSE LET a == UnmarshalASTNode(args[i])
         IN  IF IsErr(a.err) THEN [nodes |-> <<>>, err |-> WrapArg(i - 1, a.err)]
             ELSE UnmarshalArgs(args, i + 1, Append(acc, a.node))

UnmarshalASTNode(d) ==
    LET t == IF Has(d, "type") THEN d.type ELSE ""
        bad(e) == [node |-> Nil, err |-> e]
        good(n) == [node |-> n, err |-> NoErr]
        binary(make, missing) ==
            IF ~Has(d, "operator") THEN bad(Errorf(missing, <<>>))
            ELSE LET l == UnmarshalField(d, "left")
                 IN  IF IsErr(l.err)
                     THEN bad(Wrap("error parsing left operand: %v", l.err))
                     ELSE LET r == UnmarshalField(d, "right")
                          IN  IF IsErr(r.err)
                              THEN bad(Wrap("error parsing right operand: %v", r.err))
                              ELSE good([type |-> make, Operator |-> d.operator,
                                         Left |-> l.node, Right |-> r.node])
    IN  IF t = NodeTypeLiteral
        THEN IF ~Has(d, "value") THEN bad(Errorf("literal node missing value", <<>>))
             ELSE good(LiteralNode(d.value))
        ELSE IF t = NodeTypeVariable
        THEN IF ~Has(d, "name") THEN bad(Errorf("variable node missing name", <<>>))
             ELSE good(VariableNode(d.name))
        ELSE IF t = NodeTypeOperation
        THEN binary(NodeTypeOperation, "operation node missing operator")
        ELSE IF t = NodeTypeComparison
        THEN binary(NodeTypeComparison, "comparison node missing operator")
        ELSE IF t = NodeTypeConditional
        THEN LET c == UnmarshalField(d, "condition")
             IN  IF IsErr(c.err) THEN bad(Wrap("error parsing condition: %v", c.err))
                 ELSE LET th == UnmarshalField(d, "then")
                      IN  IF IsErr(th.err)
                          THEN bad(Wrap("error parsing then branch: %v", th.err))
                          ELSE IF Has(d, "else")
                          THEN LET el == UnmarshalASTNode(d.else)
                               IN  IF IsErr(el.err)
                                   THEN bad(Wrap("error parsing else branch: %v", el.err))
                                   ELSE good(ConditionalNode(c.node, th.node, el.node))
                          ELSE good(ConditionalNode(c.node, th.node, Nil))
        ELSE IF t = NodeTypeFunction
        THEN IF ~Has(d, "name") THEN bad(Errorf("function node missing name", <<>>))
             ELSE LET as == UnmarshalArgs(IF Has(d, "args") THEN d.args ELSE <<>>, 1, <<>>)
                  IN  IF IsErr(as.err) THEN bad(as.err)
                      ELSE good(FunctionNode(d.name, as.nodes))
        ELSE bad([msg |-> <<"unknown node type: %s", t>>, arg |-> <<>>])

\* The serializer is not part of the repository; this is the one the
\* specification's section 6 describes: one object per node with its type
\* tag and the fields of that type, an absent else and empty args omitted.
\* Logical and Unary nodes carry the fields their struct tags name.
RECURSIVE MarshalASTNode(_)
MarshalASTNode(n) ==
    IF n.type = NodeTypeLiteral THEN [type |-> n.type, value |-> n.Value]
    ELSE IF n.type = NodeTypeVariable THEN [type |-> n.type, name |-> n.Name]
    ELSE IF n.type \in {NodeTypeOperation, NodeTypeComparison, NodeTypeLogical}
    THEN [type |-> n.type, operator |-> n.Operator,
          left |-> MarshalASTNode(n.Left), right |-> MarshalASTNode(n.Right)]
    ELSE IF n.type = NodeTypeUnary
    THEN [type |-> n.type, operator |-> n.Operator, operand |-> MarshalASTNode(n.Operand)]
    ELSE IF n.type = NodeTypeConditional
    THEN IF n.Else = Nil
         THEN [type |-> n.type, condition |-> MarshalASTNode(n.Condition),
               then |-> MarshalASTNode(n.Then)]
         ELSE [type |-> n.type, condition |-> MarshalASTNode(n.Condition),
               then |-> MarshalASTNode(n.Then), else |-> MarshalASTNode(n.Else)]
    ELSE IF n.Args = <<>> THEN [type |-> n.type, name |-> n.Name]
    ELSE [type |-> n.type, name |-> n.Name,
          args |-> [i \in DOMAIN n.Args |-> MarshalASTNode(n.Args[i])]]

(***************************************************************************)
(* Validator  (src/validator.go).  The source's messages are Russian text; *)
(* a message is kept here as an English rendering of its format string,    *)
(* the value interpolated into it and, for a syntax error, the parser's    *)
(* error.  A *ValidationError that may be nil is a sequence of zero or one *)
(* errors.  A Position the source leaves unset is Go's zero value, 0.      *)
(***************************************************************************)
MaxFormulaBytes == 1000
LongNameBytes == 20
ManyParens == 5
MinOperatorRun == 3

ValidationError(text, arg, cause, position, code) ==
    [Message |-> [text |-> text, arg |-> arg, cause |-> cause],
     Position |-> position, Code |-> code]

\* ValidationError.Error(): the text names the position when it is not negative
PrintsPosition(e) == e.Position >= 0

\* NewFormulaValidator
allowedOperators ==
    {PLUS, MINUS, STAR, SLASH, EQ, BANG, GT, LT, LPAREN, RPAREN, COMMA, DOT}

keywords == {KwESLI, KwILI, KwI, KwTOGDA, KwINACHE, KwIF, KwTHEN, KwELSE, KwOR, KwAND}

Indices(s) == [i \in 1..Len(s) |-> i]

\* the byte offset of the rune with 0-based index i
ByteOffset(runes, i) == ByteLenOf(SubSeq(runes, 1, i))

validateBasicStructure(formula) ==
    LET trimmed == TrimSpace(formula)
    IN  IF ByteLenOf(trimmed) = 0
        THEN <<ValidationError("formula must not be empty", <<>>, NoErr, 0, "EMPTY_FORMULA")>>
        ELSE IF ByteLenOf(trimmed) > MaxFormulaBytes
        THEN <<ValidationError("formula is too long (at most 1000 characters)", <<>>,
                               NoErr, 0, "FORMULA_TOO_LONG")>>
        ELSE <<>>

isValidCharacter(r) ==
    \/ IsDigit(r)
    \/ IsSpace(r)
    \/ r \in allowedOperators
    \/ r = USCORE
    \/ r \in 97..122
    \/ r \in 65..90
    \/ IsCyrillic(r)

validateCharacters(formula) ==
    LET bad == SelectSeq(Indices(formula), LAMBDA i : ~isValidCharacter(formula[i]))
    IN  [k \in DOMAIN bad |->
            ValidationError("invalid character '%c'", <<formula[bad[k]]>>, NoErr,
                            bad[k] - 1, "INVALID_CHARACTER")]

RECURSIVE CyrillicWordEnd(_, _)
CyrillicWordEnd(runes, i) ==
    IF i < Len(runes) /\ (IsCyrillic(runes[i + 1]) \/ runes[i + 1] = USCORE)
    THEN CyrillicWordEnd(runes, i + 1)
    ELSE i

\* the words the scan of extractCyrillicWords meets, in text order
RECURSIVE CyrillicOccurrences(_, _)
CyrillicOccurrences(runes, i) ==
    IF i >= Len(runes) THEN <<>>
    ELSE IF IsCyrillic(runes[i + 1])
    THEN LET end == CyrillicWordEnd(runes, i)
         IN  <<[word |-> SubSeq(runes, i + 1, end), start |-> i]>>
                 \o CyrillicOccurrences(runes, end)
    ELSE CyrillicOccurrences(runes, i + 1)

\* the map word -> start positions
extractCyrillicWords(formula) ==
    LET occ == CyrillicOccurrences(formula, 0)
    IN  [w \in {occ[k].word : k \in DOMAIN occ} |->
            LET mine == SelectSeq(occ, LAMBDA o : o.word = w)
            IN  [k \in DOMAIN mine |-> mine[k].start]]

\* the orders in which a range over a Go map with key set S can visit it
Orders(S) ==
    {o \in [1..Cardinality(S) -> S] : \A i, j \in 1..Cardinality(S) : o[i] = o[j] => i = j}

\* fault variant of validateCyrillicUsage: Cyrillic words are never reported
validateCyrillicUsageLenient(formula, order) == <<>>

\* validateCyrillicUsage when the range over cyrillicWords visits the words
\* in the given order
validateCyrillicUsage(formula, order) ==
    LET cyrillicWords == extractCyrillicWords(formula)
        errorsOf(word) ==
            IF ToUpper(word) \in keywords THEN <<>>
            ELSE [k \in DOMAIN cyrillicWords[word] |->
                     ValidationError("cyrillic word '%s' is not an allowed keyword", word,
                                     NoErr, cyrillicWords[word][k], "INVALID_CYRILLIC_WORD")]
    IN  Cat([k \in DOMAIN order |-> errorsOf(order[k])])

RECURSIVE ParenScan(_, _, _)
ParenScan(runes, i, stack) ==
    IF i >= Len(runes)
    THEN IF stack > 0
         THEN <<ValidationError("%d closing parentheses are missing", <<stack>>, NoErr, 0,
                                "MISSING_CLOSING_PAREN")>>
         ELSE <<>>
    ELSE IF runes[i + 1] = LPAREN THEN ParenScan(runes, i + 1, stack + 1)
    ELSE IF runes[i + 1] = RPAREN
    THEN IF stack - 1 < 0
         THEN <<ValidationError("extra closing parenthesis", <<>>, NoErr, i,
                                "EXTRA_CLOSING_PAREN")>>
         ELSE ParenScan(runes, i + 1, stack - 1)
    ELSE ParenScan(runes, i + 1, stack)

\* fault variant of validateParentheses: the count starts at 1
validateParenthesesFromOne(formula) == ParenScan(formula, 0, 1)

validateParentheses(formula) == ParenScan(formula, 0, 0)

RECURSIVE OperatorRunEnd(_, _)
OperatorRunEnd(runes, i) ==
    IF i < Len(runes) /\ runes[i + 1] \in OperatorRunes
    THEN OperatorRunEnd(runes, i + 1)
    ELSE i

\* the start indices of the matches of [+\-*/=!><]{3,}, leftmost first,
\* each match as long as possible
RECURSIVE OperatorRuns(_, _)
OperatorRuns(runes, i) ==
    IF i >= Len(runes) THEN <<>>
    ELSE IF runes[i + 1] \in OperatorRunes
    THEN LET end == OperatorRunEnd(runes, i)
         IN  (IF end - i >= MinOperatorRun THEN <<i>> ELSE <<>>) \o OperatorRuns(runes, end)
    ELSE OperatorRuns(runes, i + 1)

\* trimmed[len(trimmed)-1]: the last byte of the UTF-8 encoding
LastByte(s) == LET r == s[Len(s)] IN IF r < 128 THEN r ELSE 128 + (r % 64)

validateOperators(formula) ==
    LET matches == OperatorRuns(formula, 0)
        trimmed == TrimSpace(formula)
    IN  [k \in DOMAIN matches |->
            ValidationError("invalid operator sequence", <<>>, NoErr,
                            ByteOffset(formula, matches[k]), "INVALID_OPERATOR_SEQUENCE")]
        \o (IF ByteLenOf(trimmed) > 0 /\ LastByte(trimmed) \in {STAR, SLASH, EQ, BANG, GT, LT}
            THEN <<ValidationError("formula must not end with an operator", <<>>, NoErr,
                                   ByteLenOf(formula) - 1, "FORMULA_ENDS_WITH_OPERATOR")>>
            ELSE <<>>)

\* fault variant of validateSyntax: the tokens are screened, the parse is
\* not attempted
validateSyntaxTokensOnly(formula) ==
    LET tokens == Tokenize(formula)
        empty == SelectSeq(tokens, LAMBDA t : t.Value = <<>> /\ t.Type # TokenEOF)
    IN  IF empty # <<>>
        THEN <<ValidationError("unexpected token in formula", <<>>, NoErr, empty[1].Pos,
                               "UNEXPECTED_TOKEN")>>
        ELSE <<>>

validateSyntax(formula) ==
    LET tokens == Tokenize(formula)
        empty == SelectSeq(tokens, LAMBDA t : t.Value = <<>> /\ t.Type # TokenEOF)
        p == Parse(formula)
    IN  IF empty # <<>>
        THEN <<ValidationError("unexpected token in formula", <<>>, NoErr, empty[1].Pos,
                               "UNEXPECTED_TOKEN")>>
        ELSE IF IsErr(p.err)
        THEN <<ValidationError("syntax error: %v", <<>>, p.err, 0, "SYNTAX_ERROR")>>
        ELSE <<>>

IsNameStart(r) ==
    \/ r \in 97..122
    \/ r \in 65..90
    \/ r \in 1040..1103
    \/ r = 1105
    \/ r = 1025
    \/ r = USCORE

RECURSIVE NameEnd(_, _)
NameEnd(runes, i) ==
    IF i < Len(runes) /\ (IsNameStart(runes[i + 1]) \/ runes[i + 1] \in 48..57)
    THEN NameEnd(runes, i + 1)
    ELSE i

\* the matches of the variable pattern of generateWarnings
RECURSIVE Names(_, _)
Names(runes, i) ==
    IF i >= Len(runes) THEN <<>>
    ELSE IF IsNameStart(runes[i + 1])
    THEN LET end == NameEnd(runes, i)
         IN  <<SubSeq(runes, i + 1, end)>> \o Names(runes, end)
    ELSE Names(runes, i + 1)

generateWarnings(formula) ==
    LET lower == ToLower(formula)
        hasRussian == \E i \in DOMAIN lower : lower[i] \in 1072..1103 \/ lower[i] = 1105
        hasEnglish == \E i \in DOMAIN lower : lower[i] \in 97..122
        opens == Cardinality({i \in DOMAIN formula : formula[i] = LPAREN})
        long == SelectSeq(Names(formula, 0),
                          LAMBDA v : ToUpper(v) \notin keywords /\ ByteLenOf(v) > LongNameBytes)
    IN  (IF hasRussian /\ hasEnglish
         THEN <<[text |-> "formula mixes Russian and English keywords", arg |-> <<>>]>>
         ELSE <<>>)
        \o (IF opens > ManyParens
            THEN <<[text |-> "formula may be too complex to understand", arg |-> <<>>]>>
            ELSE <<>>)
        \o [k \in DOMAIN long |->
               [text |-> "variable '%s' has a very long name", arg |-> long[k]]]

\* fault variant of ValidateFormula: returns at the first stage that reports
\* an error
ValidateFormulaFirstStage(formula, order) ==
    LET stages == <<validateBasicStructure(formula), validateCharacters(formula),
                    validateCyrillicUsage(formula, order), validateParentheses(formula),
                    validateOperators(formula), validateSyntax(formula)>>
        failing == {k \in DOMAIN stages : stages[k] # <<>>}
        errors == IF failing = {} THEN <<>>
                  ELSE stages[CHOOSE k \in failing : \A j \in failing : k <= j]
    IN  [IsValid |-> errors = <<>>, Errors |-> errors, Warnings |-> generateWarnings(formula)]

\* fault variant of ValidateFormula: a warning makes the formula invalid
ValidateFormulaWarningsCount(formula, order) ==
    LET basic == validateBasicStructure(formula)
        chars == validateCharacters(formula)
        cyr   == validateCyrillicUsage(formula, order)
        paren == validateParentheses(formula)
        ops   == validateOperators(formula)
        early == basic \o chars \o cyr \o paren \o ops
        isValid == basic = <<>> /\ chars = <<>> /\ cyr = <<>> /\ paren = <<>> /\ ops = <<>>
        syntax == IF isValid THEN validateSyntax(formula) ELSE <<>>
    IN  [IsValid |-> isValid /\ syntax = <<>> /\ generateWarnings(formula) = <<>>,
         Errors |-> early \o syntax,
         Warnings |-> generateWarnings(formula)]

\* ValidateFormula when validateCyrillicUsage visits the words in the given
\* order
ValidateFormula(formula, order) ==
    LET basic == validateBasicStructure(formula)
        chars == validateCharacters(formula)
        cyr   == validateCyrillicUsage(formula, order)
        paren == validateParentheses(formula)
        ops   == validateOperators(formula)
        early == basic \o chars \o cyr \o paren \o ops
        isValid == basic = <<>> /\ chars = <<>> /\ cyr = <<>> /\ paren = <<>> /\ ops = <<>>
        syntax == IF isValid THEN validateSyntax(formula) ELSE <<>>
    IN  [IsValid |-> isValid /\ syntax = <<>>,
         Errors |-> early \o syntax,
         Warnings |-> generateWarnings(formula)]

\* QuickValidate when validateCyrillicUsage visits the words in the given
\* order
QuickValidate(formula, order) == ValidateFormula(formula, order).IsValid

(***************************************************************************)
(* Inputs: formula texts.  A text is described by a shape (how it is       *)
(* written) and rendered to runes; the claims quantify over the shapes.    *)
(***************************************************************************)
MaxLit == 5
MaxWords == 3

RECURSIVE Join(_)
Join(ss) ==
    IF ss = <<>> THEN <<>>
    ELSE IF Len(ss) = 1 THEN ss[1]
    ELSE ss[1] \o <<SP>> \o Join(Tail(ss))

RECURSIVE DigitsOf(_)
DigitsOf(k) == IF k < 10 THEN <<48 + k>> ELSE DigitsOf(k \div 10) \o <<48 + (k % 10)>>

NameA == <<65>>
NameB == <<66>>
NameMyFunc == <<109, 121, 70, 117, 110, 99>>
NameSum == <<115, 117, 109>>
NameMax == <<109, 97, 120>>
NameC == <<67>>
NameLowerA == <<97>>

\* operands: a literal k or a variable
Lit(k) == [kind |-> "lit", k |-> k, name |-> <<>>]
Var(name) == [kind |-> "var", k |-> 0, name |-> name]
Lits == {Lit(k) : k \in 0..MaxLit}
SmallOperands == {Lit(0), Lit(1), Lit(2), Var(NameA), Var(NameB)}
OperandText(o) == IF o.kind = "lit" THEN DigitsOf(o.k) ELSE o.name
OperandNode(o) == IF o.kind = "lit" THEN LiteralNode(Num(o.k)) ELSE VariableNode(o.name)

\* items of a text: a keyword (by its Latin upper-case name, spelled in a
\* language and a casing when rendered) or literal text
KwItem(k) == [kw |-> k, text |-> <<>>]
TextItem(t) == [kw |-> <<>>, text |-> t]
Keywords == {KwIF, KwTHEN, KwELSE, KwOR, KwAND}
Langs == {"latin", "cyrillic"}
Casings == {"upper", "lower", "title"}

Cyrillic(k) ==
    IF k = KwIF THEN KwESLI
    ELSE IF k = KwTHEN THEN KwTOGDA
    ELSE IF k = KwELSE THEN KwINACHE
    ELSE IF k = KwOR THEN KwILI
    ELSE KwI

Cased(w, casing) ==
    IF casing = "upper" THEN w
    ELSE IF casing = "lower" THEN ToLower(w)
    ELSE <<w[1]>> \o ToLower(Tail(w))

ItemText(it, lang, casing) ==
    IF it.kw = <<>> THEN it.text
    ELSE Cased(IF lang = "latin" THEN it.kw ELSE Cyrillic(it.kw), casing)

ItemsText(items, lang, casing) ==
    Join([i \in DOMAIN items |-> ItemText(items[i], lang, casing)])

ArithOps == {OpAdd, OpSub, OpMul, OpDiv}
CompOps == {OpGt, OpLt, OpGe, OpLe, OpEq, OpNe}
BinItems == {TextItem(o) : o \in ArithOps \cup CompOps} \cup {KwItem(KwOR), KwItem(KwAND)}

\* "x o1 y o2 z" and "(x o1 y) o2 z" over arithmetic operators
ArithShapes ==
    [kind : {"arith"}, x : Lits, y : Lits, z : Lits, o1 : ArithOps, o2 : ArithOps,
     paren : BOOLEAN]

\* "x p y q z" over comparison operators
CmpShapes ==
    [kind : {"cmp"}, x : Lits, y : Lits, z : Lits, o1 : CompOps, o2 : CompOps]

\* "u x o y": a leading sign, then a binary operator
UnaryShapes ==
    [kind : {"unary"}, u : {OpAdd, OpSub}, x : SmallOperands, y : SmallOperands,
     o : BinItems]

\* "x o y" with o one of / and %, y an operand or "(y - y)"
DivShapes ==
    [kind : {"div"}, x : SmallOperands, y : SmallOperands, o : {OpDiv, OpMod},
     zeroExpr : BOOLEAN]

\* "IF(c > d, t)" and "IF(c > d, t, e)"
IfCallShapes ==
    [kind : {"ifcall"}, c : {Lit(0), Lit(1), Var(NameA)}, d : {Lit(0), Lit(1)},
     t : {Lit(5)}, e : {Lit(7)}, hasElse : BOOLEAN, lang : Langs, casing : Casings]

\* "x OR f()" and "x AND f()"
LogicCallShapes ==
    [kind : {"logiccall"}, x : {Lit(0), Lit(1), Var(NameA)}, o : {KwOR, KwAND},
     f : {NameMyFunc, NameSum}, lang : Langs, casing : Casings]

\* "IF a > b THEN t ELSE e", "IF a THEN t", with OR / AND in the condition
IfStmtShapes ==
    [kind : {"ifstmt"}, a : {Var(NameA), Lit(0)}, b : {Lit(1), Var(NameB)},
     j : {TextItem(OpGt), KwItem(KwOR), KwItem(KwAND)},
     t : {Lit(2)}, e : {Lit(3)}, hasElse : BOOLEAN, lang : Langs, casing : Casings]

\* any sequence of at most MaxWords words, separated by single spaces
Vocabulary ==
    {KwItem(k) : k \in Keywords}
        \cup {TextItem(t) : t \in {NameA, <<49>>, OpGt, <<LPAREN>>, <<RPAREN>>}}

RECURSIVE SeqsUpTo(_, _)
SeqsUpTo(S, n) ==
    IF n = 0 THEN {<<>>}
    ELSE LET shorter == SeqsUpTo(S, n - 1)
         IN  shorter \cup {Append(w, x) : w \in {v \in shorter : Len(v) = n - 1}, x \in S}

WordShapes ==
    [kind : {"words"}, words : SeqsUpTo(Vocabulary, MaxWords), lang : Langs,
     casing : Casings]

\* a complete expression, written with its tree, followed by more text
BaseExprs ==
    {[text |-> <<65>>, node |-> VariableNode(NameA)],
     [text |-> <<49>>, node |-> LiteralNode(One)],
     [text |-> <<49, 32, 43, 32, 50>>, node |-> OperationNode(OpAdd, LiteralNode(One), LiteralNode(Num(2)))],
     [text |-> <<65, 32, 42, 32, 66>>, node |-> OperationNode(OpMul, VariableNode(NameA), VariableNode(NameB))],
     [text |-> <<40, 65, 41>>, node |-> VariableNode(NameA)],
     [text |-> <<45, 65>>, node |-> UnaryNode(OpSub, VariableNode(NameA))],
     [text |-> <<65, 32, 62, 32, 49>>, node |-> ComparisonNode(OpGt, VariableNode(NameA), LiteralNode(One))],
     [text |-> <<49, 32, 79, 82, 32, 48>>, node |-> LogicalNode(KwOR, LiteralNode(One), LiteralNode(Zero))],
     [text |-> <<73, 70, 32, 65, 32, 84, 72, 69, 78, 32, 49, 32, 69, 76, 83, 69, 32, 50>>,
      node |-> ConditionalNode(VariableNode(NameA), LiteralNode(One), LiteralNode(Num(2)))]}

\* B, 3, ")", ",", THEN, "ELSE 1", IF, "B C", "3 +", "f(1)", "(", "( B", "@",
\* "== B", "! B", "+ B", "> 2", "OR B"
Trailers ==
    {<<66>>, <<51>>, <<41>>, <<44>>, <<84, 72, 69, 78>>, <<69, 76, 83, 69, 32, 49>>, <<73, 70>>, <<66, 32, 67>>, <<51, 32, 43>>, <<102, 40, 49, 41>>, <<40>>, <<40, 32, 66>>, <<64>>, <<61, 61, 32, 66>>, <<33, 32, 66>>, <<43, 32, 66>>, <<62, 32, 50>>, <<79, 82, 32, 66>>}

\* "<base> <rest>"
TrailShapes == [kind : {"trail"}, base : BaseExprs, rest : Trailers]

\* a call "f(arg)" or "f (arg)" where an operand is expected: alone, as the
\* right or left operand of +, under a sign, in parentheses, as the condition
\* or the then branch of an IF statement, on the right of OR
CallNames == {NameMyFunc, NameSum, NameA, <<73, 70, 70>>, <<1092>>}
CallPlaces == {"alone", "right", "left", "neg", "paren", "ifcond", "ifthen", "or"}
CallShapes ==
    [kind : {"call"}, f : CallNames, place : CallPlaces, arg : {<<>>, <<49>>},
     gap : BOOLEAN]

CallText(s) ==
    s.f \o (IF s.gap THEN <<SP>> ELSE <<>>) \o <<LPAREN>> \o s.arg \o <<RPAREN>>

CallInPlace(s, call) ==
    IF s.place = "alone" THEN call
    ELSE IF s.place = "right" THEN <<49, 32, 43, 32>> \o call
    ELSE IF s.place = "left" THEN call \o <<32, 43, 32, 49>>
    ELSE IF s.place = "neg" THEN <<MINUS>> \o call
    ELSE IF s.place = "paren" THEN <<LPAREN>> \o call \o <<RPAREN>>
    ELSE IF s.place = "ifcond" THEN <<73, 70, 32>> \o call \o <<32, 84, 72, 69, 78, 32, 50>>
    ELSE IF s.place = "ifthen" THEN <<73, 70, 32, 49, 32, 84, 72, 69, 78, 32>> \o call
    ELSE <<48, 32, 79, 82, 32>> \o call

ShapeItems(s) ==
    IF s.kind = "ifstmt"
    THEN <<KwItem(KwIF), TextItem(OperandText(s.a)), s.j, TextItem(OperandText(s.b)),
           KwItem(KwTHEN), TextItem(OperandText(s.t))>>
         \o (IF s.hasElse THEN <<KwItem(KwELSE), TextItem(OperandText(s.e))>> ELSE <<>>)
    ELSE s.words

\* the text of a shape written with keywords of language lang
\* the operators of the text grammar, as the Operation and Comparison nodes
\* spell them
GrammarOperators ==
    {OpAdd, OpSub, OpMul, OpDiv, OpPow, OpPow2, OpMod, OpGt, OpLt, OpGe, OpLe,
     OpEq, OpNe}

\* "x op y" for two numbers and one operator
BinopShapes == [kind : {"binop"}, x : {2, 7}, op : GrammarOperators, y : {3, 4}]

\* "A op B" and "AopB" for the two-character operators of the tokenizer
CompoundShapes == [kind : {"compound"}, op : TwoCharOps, gap : BOOLEAN]

RenderIn(s, lang, casing) ==
    IF s.kind = "arith"
    THEN IF s.paren
         THEN Cat(<<<<LPAREN>>, OperandText(s.x), <<SP>>, s.o1, <<SP>>, OperandText(s.y),
                    <<RPAREN>>, <<SP>>, s.o2, <<SP>>, OperandText(s.z)>>)
         ELSE Join(<<OperandText(s.x), s.o1, OperandText(s.y), s.o2, OperandText(s.z)>>)
    ELSE IF s.kind = "cmp"
    THEN Join(<<OperandText(s.x), s.o1, OperandText(s.y), s.o2, OperandText(s.z)>>)
    ELSE IF s.kind = "unary"
    THEN s.u \o Join(<<OperandText(s.x), ItemText(s.o, lang, casing), OperandText(s.y)>>)
    ELSE IF s.kind = "div"
    THEN Join(<<OperandText(s.x), s.o>>) \o <<SP>>
         \o (IF s.zeroExpr
             THEN Cat(<<<<LPAREN>>, OperandText(s.y), <<SP, MINUS, SP>>, OperandText(s.y),
                        <<RPAREN>>>>)
             ELSE OperandText(s.y))
    ELSE IF s.kind = "ifcall"
    THEN Cat(<<ItemText(KwItem(KwIF), lang, casing), <<LPAREN>>, OperandText(s.c),
               <<SP, GT, SP>>, OperandText(s.d), <<COMMA, SP>>, OperandText(s.t)>>)
         \o (IF s.hasElse THEN <<COMMA, SP>> \o OperandText(s.e) ELSE <<>>)
         \o <<RPAREN>>
    ELSE IF s.kind = "logiccall"
    THEN Join(<<OperandText(s.x), ItemText(KwItem(s.o), lang, casing), s.f>>)
         \o <<LPAREN, RPAREN>>
    ELSE IF s.kind = "trail"
    THEN Join(<<s.base.text, s.rest>>)
    ELSE IF s.kind = "call"
    THEN CallInPlace(s, CallText(s))
    ELSE IF s.kind = "binop"
    THEN Join(<<DigitsOf(s.x), s.op, DigitsOf(s.y)>>)
    ELSE IF s.kind = "compound"
    THEN IF s.gap THEN Join(<<NameA, s.op, NameB>>) ELSE Cat(<<NameA, s.op, NameB>>)
    ELSE ItemsText(ShapeItems(s), lang, casing)

HasLang(s) == s.kind \in {"ifcall", "logiccall", "ifstmt", "words"}

Render(s) ==
    IF HasLang(s) THEN RenderIn(s, s.lang, s.casing) ELSE RenderIn(s, "latin", "upper")

\* texts of arithmetic and comparison
ExprShapes == ArithShapes \cup CmpShapes \cup UnaryShapes \cup DivShapes

\* texts with keywords and calls
KeywordShapes == IfCallShapes \cup LogicCallShapes \cup IfStmtShapes \cup WordShapes

\* texts with something after a complete expression, texts with calls
TextShapes == TrailShapes \cup CallShapes \cup BinopShapes \cup CompoundShapes

\* contexts an evaluation is given
Ctx(vars, fns) == [Variables |-> vars, Functions |-> fns]
TestFunctions ==
    (NameMyFunc :> FnAlwaysError) @@ (NameSum :> FnSum) @@ (NameMax :> FnMax)
Contexts ==
    {Ctx((NameA :> Num(3)) @@ (NameB :> Num(10)), TestFunctions),
     Ctx((NameA :> Num(5)), TestFunctions),
     Ctx((NameA :> Num(0)) @@ (NameB :> Num(1)), TestFunctions)}

(***************************************************************************)
(* Inputs: trees a caller builds in code, node by node                     *)
(***************************************************************************)
MaxLeaf == 2

OpUnknown == <<63>>
KwXOR == <<88, 79, 82>>

Leaves ==
    {LiteralNode(Num(k)) : k \in 0..MaxLeaf}
        \cup {VariableNode(NameA), VariableNode(NameLowerA), VariableNode(NameC),
              FunctionNode(NameMyFunc, <<>>), FunctionNode(NameSum, <<>>)}

\* every node variant over the children in S
NodesOver(S) ==
    {OperationNode(o, l, r) :
        o \in {OpAdd, OpSub, OpMul, OpDiv, OpPow, OpPow2, OpMod, OpUnknown}, l \in S, r \in S}
    \cup {ComparisonNode(o, l, r) : o \in CompOps \cup {OpEqEq}, l \in S, r \in S}
    \cup {LogicalNode(o, l, r) : o \in {KwOR, KwAND, KwXOR}, l \in S, r \in S}
    \cup {UnaryNode(o, x) : o \in {OpAdd, OpSub, OpMul}, x \in S}
    \cup {ConditionalNode(c, t, e) : c \in S, t \in S, e \in S \cup {Nil}}
    \cup {FunctionNode(f, a) :
            f \in {NameMyFunc, NameSum, NameMax, NameA}, a \in SeqsUpTo(S, 2)}

\* children of the nested trees
Inner ==
    {LiteralNode(Zero), LiteralNode(One), VariableNode(NameC),
     ComparisonNode(OpGt, VariableNode(NameA), LiteralNode(One)),
     LogicalNode(KwOR, LiteralNode(One), FunctionNode(NameMyFunc, <<>>)),
     UnaryNode(OpSub, VariableNode(NameA)),
     ConditionalNode(LiteralNode(Zero), LiteralNode(One), Nil),
     FunctionNode(NameSum, <<LiteralNode(One), VariableNode(NameA)>>)}

Nested ==
    {OperationNode(OpAdd, l, r) : l \in Inner, r \in Inner}
    \cup {LogicalNode(o, l, r) : o \in {KwOR, KwAND}, l \in Inner, r \in Inner}
    \cup {UnaryNode(OpSub, x) : x \in Inner}
    \cup {ConditionalNode(c, t, Nil) : c \in Inner, t \in Inner}
    \cup {FunctionNode(NameSum, <<x>>) : x \in Inner}

Trees == Leaves \cup NodesOver(Leaves) \cup Nested

(***************************************************************************)
(* Inputs: texts handed to the validator                                   *)
(***************************************************************************)
MaxValLen == 3
MaxCalls == 2

\* A 1 + * ( ) @ and the Cyrillic letters и ц ы
ValAlphabet == {65, 49, PLUS, STAR, LPAREN, RPAREN, 64, SP, 1080, 1094, 1099}

\* "Ц + 1"
TextTsePlus1 == <<1062, SP, PLUS, SP, 49>>

\* "A o1 o2 B" and "A o1o2 B" for two arithmetic operators
DoubleOpTexts ==
    {<<65, SP>> \o o1 \o gap \o o2 \o <<SP, 66>> :
        o1 \in ArithOps, o2 \in ArithOps, gap \in {<<>>, <<SP>>}}

ValTexts == SeqsUpTo(ValAlphabet, MaxValLen) \cup {TextTsePlus1} \cup DoubleOpTexts

(***************************************************************************)
(* Inputs: texts about as long as the validator allows                     *)
(***************************************************************************)
\* how far the lengths go on either side of the limit and of half the limit
LongSlack == 10

LongLengths ==
    ((MaxFormulaBytes \div 2 - LongSlack)..(MaxFormulaBytes \div 2 + LongSlack))
        \cup ((MaxFormulaBytes - LongSlack)..(MaxFormulaBytes + LongSlack))

\* n times the Latin A or the Cyrillic ц, with or without a space before and
\* after
LongTexts ==
    {before \o [i \in 1..n |-> ch] \o after :
        ch \in {65, 1094}, n \in LongLengths, before \in {<<>>, <<SP>>},
        after \in {<<>>, <<SP>>}}

(***************************************************************************)
(* Inputs: trees evaluated by two callers at once                          *)
(***************************************************************************)
ConcLeaves == {LiteralNode(One), VariableNode(NameA), VariableNode(NameB)}

\* B ^ B is left out: with B = 10 its value does not fit TLC's integers
ConcTrees ==
    (ConcLeaves \cup NodesOver(ConcLeaves) \cup Nested)
        \ {OperationNode(o, VariableNode(NameB), VariableNode(NameB)) : o \in {OpPow, OpPow2}}

(***************************************************************************)
(* Inputs: texts handed to a Lexer driven call by call                     *)
(***************************************************************************)
\* A 1 . _ > = ( , @ space and the Cyrillic letter ц
LexAlphabet == {65, 49, DOT, USCORE, GT, EQ, LPAREN, COMMA, 64, SP, 1094}

\* the longest run of spaces between two runs
MaxGap == 3

Spaces(n) == [i \in 1..n |-> SP]

\* A, B, AB, ц
LetterRuns == {<<65>>, <<66>>, <<65, 66>>, <<1094>>}

\* 1, 12
DigitRuns == {<<49>>, <<49, 50>>}

\* two runs, at least one of letters, with spaces between them
GapTexts ==
    {l \o Spaces(n) \o r :
        l \in LetterRuns \cup DigitRuns, r \in LetterRuns \cup DigitRuns, n \in 1..MaxGap}
    \ {l \o Spaces(n) \o r : l \in DigitRuns, r \in DigitRuns, n \in 1..MaxGap}

\* two runs with an operator or a comma between them, padded with spaces
PaddedTexts ==
    {l \o Spaces(n) \o <<s>> \o Spaces(n) \o r :
        l \in LetterRuns \cup DigitRuns, r \in LetterRuns \cup DigitRuns,
        s \in {PLUS, GT, COMMA}, n \in 0..MaxGap}

LexTexts == SeqsUpTo(LexAlphabet, MaxValLen) \cup GapTexts \cup PaddedTexts

\* NextToken calls made on one Lexer: enough to pass the end of the longest
\* text twice
MaxTokenCalls == MaxValLen + 2

(***************************************************************************)
(* State                                                                   *)
(***************************************************************************)
VARIABLES
    shape,        \* how the input text is written
    formula,      \* the input text
    structure,    \* what validateBasicStructure returned for formula, once
                  \* it was called on its own
    tree,         \* the tree the caller built, Nil when the input is a text
    data,         \* the document in flight at the tree boundary, if any
    ast,          \* the AST in hand and the error returned with it; src tells
                  \* where it came from
    ctx,          \* the context of the last evaluation
    result,       \* what Evaluate returned
    validations,  \* what the calls of ValidateFormula on formula returned
    lexer,        \* the Lexer a caller drives by hand: its runes, its cursor
                  \* and the NextToken calls made on it so far
    evals         \* the evaluations in flight on the AST in hand, one per
                  \* caller: context, stack of Evaluate frames, result

vars == <<shape, formula, structure, tree, data, ast, ctx, result, validations, lexer, evals>>

TreeShape == [kind |-> "tree"]
RawShape == [kind |-> "raw"]
NoAst == [src |-> "none", node |-> Nil, err |-> NoErr]
NoCtx == Ctx(<<>>, <<>>)
NoResult == [done |-> FALSE, val |-> Zero, err |-> NoErr, calls |-> <<>>]
NoStructure == [done |-> FALSE, errors |-> <<>>]
NoLexer == [made |-> FALSE, runes |-> <<>>, pos |-> 0, calls |-> <<>>]

\* the callers evaluating the AST in hand at the same time
Evaluators == {1, 2}
Idle ==
    [started |-> FALSE, done |-> FALSE, ctx |-> NoCtx, stack |-> <<>>,
     ret |-> [val |-> Zero, err |-> NoErr]]
NoEvals == [run |-> [i \in Evaluators |-> Idle], overlapped |-> FALSE]

InitText(S) ==
    /\ shape \in S
    /\ formula = Render(shape)
    /\ tree = Nil
    /\ data = <<>>
    /\ ast = NoAst
    /\ ctx = NoCtx
    /\ result = NoResult
    /\ validations = <<>>
    /\ lexer = NoLexer
    /\ evals = NoEvals
    /\ structure = NoStructure

Init == InitText(ExprShapes)

InitKeywords == InitText(KeywordShapes)

InitTexts == InitText(TextShapes)

\* a tree built in code, or one of the texts "x OR f()" / "x AND f()"
InitTree ==
    \/ InitText(LogicCallShapes)
    \/ /\ shape = TreeShape
       /\ formula = <<>>
       /\ tree \in Trees
       /\ data = <<>>
       /\ ast = [src |-> "built", node |-> tree, err |-> NoErr]
       /\ ctx = NoCtx
       /\ result = NoResult
       /\ validations = <<>>
       /\ lexer = NoLexer
       /\ evals = NoEvals
       /\ structure = NoStructure

InitValidate ==
    /\ shape = RawShape
    /\ formula \in ValTexts
    /\ tree = Nil
    /\ data = <<>>
    /\ ast = NoAst
    /\ ctx = NoCtx
    /\ result = NoResult
    /\ validations = <<>>
    /\ lexer = NoLexer
    /\ evals = NoEvals
    /\ structure = NoStructure

InitLength ==
    /\ shape = RawShape
    /\ formula \in LongTexts
    /\ tree = Nil
    /\ data = <<>>
    /\ ast = NoAst
    /\ ctx = NoCtx
    /\ result = NoResult
    /\ validations = <<>>
    /\ lexer = NoLexer
    /\ evals = NoEvals
    /\ structure = NoStructure

\* a tree in hand, nobody evaluating it yet
InitConcurrent ==
    /\ shape = TreeShape
    /\ formula = <<>>
    /\ tree \in ConcTrees
    /\ data = <<>>
    /\ ast = [src |-> "built", node |-> tree, err |-> NoErr]
    /\ ctx = NoCtx
    /\ result = NoResult
    /\ validations = <<>>
    /\ lexer = NoLexer
    /\ evals = NoEvals
    /\ structure = NoStructure

InitLexer ==
    /\ shape = RawShape
    /\ formula \in LexTexts
    /\ tree = Nil
    /\ data = <<>>
    /\ ast = NoAst
    /\ ctx = NoCtx
    /\ result = NoResult
    /\ validations = <<>>
    /\ lexer = NoLexer
    /\ evals = NoEvals
    /\ structure = NoStructure

\* parser.ParseString(formula)
DoParseString ==
    /\ shape \notin {TreeShape, RawShape}
    /\ ast.src = "none"
    /\ LET r == ParseString(formula)
       IN  ast' = [src |-> "parse", node |-> r.node, err |-> r.err]
    /\ UNCHANGED <<shape, formula, structure, tree, data, ctx, result, validations, lexer, evals>>

\* the tree in hand is serialized
DoMarshal ==
    /\ ast.src = "built"
    /\ data = <<>>
    /\ data' = <<MarshalASTNode(ast.node)>>
    /\ UNCHANGED <<shape, formula, structure, tree, ast, ctx, result, validations, lexer, evals>>

\* UnmarshalASTNode(data)
DoUnmarshal ==
    /\ data # <<>>
    /\ ast.src = "built"
    /\ LET r == UnmarshalASTNode(data[1])
       IN  ast' = [src |-> "unmarshal", node |-> r.node, err |-> r.err]
    /\ UNCHANGED <<shape, formula, structure, tree, data, ctx, result, validations, lexer, evals>>

\* ast.Evaluate(c) on the tree in hand
DoEvaluate ==
    /\ ast.src # "none"
    /\ ~IsErr(ast.err)
    /\ ~result.done
    /\ \E c \in Contexts :
          /\ ctx' = c
          /\ LET r == Evaluate(ast.node, c)
             IN  result' = [done |-> TRUE, val |-> r.val, err |-> r.err, calls |-> r.calls]
    /\ UNCHANGED <<shape, formula, structure, tree, data, ast, validations, lexer, evals>>

\* validator.ValidateFormula(formula); the range over the map of Cyrillic
\* words visits its keys in an order the runtime picks
DoValidateFormula ==
    /\ Len(validations) < MaxCalls
    /\ \E order \in Orders(DOMAIN extractCyrillicWords(formula)) :
          validations' = Append(validations, ValidateFormula(formula, order))
    /\ UNCHANGED <<shape, formula, structure, tree, data, ast, ctx, result, lexer, evals>>

\* NewLexer(formula)
DoNewLexer ==
    /\ ~lexer.made
    /\ lexer' = [made |-> TRUE, runes |-> NewLexer(formula), pos |-> 0, calls |-> <<>>]
    /\ UNCHANGED <<shape, formula, structure, tree, data, ast, ctx, result, validations, evals>>

\* lexer.NextToken(); the call is recorded with the cursor before and after
DoNextToken ==
    /\ lexer.made
    /\ Len(lexer.calls) < MaxTokenCalls
    /\ LET r == NextToken(lexer.runes, lexer.pos)
       IN  lexer' = [lexer EXCEPT
                        !.pos = r.pos,
                        !.calls = Append(@, [tok |-> r.tok, from |-> lexer.pos,
                                             to |-> r.pos])]
    /\ UNCHANGED <<shape, formula, structure, tree, data, ast, ctx, result, validations, evals>>

\* caller i calls ast.Evaluate(c) with a context of its own
DoStartEvaluate(i) ==
    /\ ast.src # "none"
    /\ ~IsErr(ast.err)
    /\ ~evals.run[i].started
    /\ \E c \in Contexts :
          evals' = [run |-> [evals.run EXCEPT ![i] =
                               [Idle EXCEPT !.started = TRUE, !.ctx = c,
                                            !.stack = <<[path |-> <<>>, vals |-> <<>>]>>]],
                    overlapped |-> evals.overlapped \/
                        \E j \in Evaluators \ {i} :
                            evals.run[j].started /\ ~evals.run[j].done]
    /\ UNCHANGED <<shape, formula, structure, tree, data, ast, ctx, result, validations, lexer>>

\* the innermost Evaluate call of caller i, on node n with the children's
\* values vals, calls its child k, or returns when k is 0
StepFrame(i, path, n, vals, k) ==
    IF k # 0
    THEN /\ evals' = [evals EXCEPT !.run[i] = AfterCall(@, k)]
         /\ ast' = ast
    ELSE /\ evals' = [evals EXCEPT !.run[i] = AfterReturn(@, Finish(n, vals, @.ctx))]
         /\ ast' = [ast EXCEPT !.node = TreeAfterReturn(@, path, Finish(n, vals, evals.run[i].ctx))]

\* one step of the evaluation of caller i
DoEvaluateStep(i) ==
    /\ evals.run[i].started
    /\ ~evals.run[i].done
    /\ StepFrame(i, evals.run[i].stack[Len(evals.run[i].stack)].path,
                 NodeAt(ast.node, evals.run[i].stack[Len(evals.run[i].stack)].path),
                 evals.run[i].stack[Len(evals.run[i].stack)].vals,
                 NextChild(NodeAt(ast.node, evals.run[i].stack[Len(evals.run[i].stack)].path),
                           evals.run[i].stack[Len(evals.run[i].stack)].vals,
                           evals.run[i].ctx))
    /\ UNCHANGED <<shape, formula, structure, tree, data, ctx, result, validations, lexer>>

\* v.validateBasicStructure(formula), the first step of ValidateFormula,
\* whose error ValidateFormula appends to its result as it is
DoValidateBasicStructure ==
    /\ ~structure.done
    /\ structure' = [done |-> TRUE, errors |-> validateBasicStructure(formula)]
    /\ UNCHANGED <<shape, formula, tree, data, ast, ctx, result, validations, lexer, evals>>

Next == DoParseString \/ DoEvaluate

NextTree == DoParseString \/ DoMarshal \/ DoUnmarshal \/ DoEvaluate

NextValidate == DoValidateFormula

NextLexer == DoNewLexer \/ DoNextToken

NextLength == DoValidateBasicStructure

NextConcurrent ==
    \/ \E i \in Evaluators : DoStartEvaluate(i)
    \/ \E i \in Evaluators : DoEvaluateStep(i)

Spec == Init /\ [][Next]_vars

SpecKeywords == InitKeywords /\ [][Next]_vars

SpecText == InitTexts /\ [][Next]_vars

SpecTree == InitTree /\ [][NextTree]_vars

SpecValidate == InitValidate /\ [][NextValidate]_vars

SpecLexer == InitLexer /\ [][NextLexer]_vars

SpecConcurrent == InitConcurrent /\ [][NextConcurrent]_vars

SpecLength == InitLength /\ [][NextLength]_vars

\* every text and every tree of the model, parsed or exchanged, then
\* evaluated
SpecAll == (Init \/ InitKeywords \/ InitTexts \/ InitTree) /\ [][NextTree]_vars

Parsed == ast.src = "parse"
ParsedOk == Parsed /\ ~IsErr(ast.err)

(***************************************************************************)
(* Claims                                                                  *)
(***************************************************************************)
AddOps == {OpAdd, OpSub}
MulOps == {OpMul, OpDiv}

OperandValue(o, c) ==
    IF o.kind = "lit" THEN [val |-> Num(o.k), err |-> NoErr]
    ELSE IF o.name \in DOMAIN c.Variables
    THEN [val |-> c.Variables[o.name], err |-> NoErr]
    ELSE [val |-> Zero, err |-> Errorf("variable '%s' not found %w", o.name)]

\* op applied to two results, the left one first
Apply2(op, l, r) ==
    IF IsErr(l.err) THEN [val |-> Zero, err |-> l.err]
    ELSE IF IsErr(r.err) THEN [val |-> Zero, err |-> r.err]
    ELSE ApplyOperation(op, l.val, r.val)

Text2p3t4 == <<50, SP, PLUS, SP, 51, SP, STAR, SP, 52>>
TextP2p3Pt4 == <<LPAREN, 50, SP, PLUS, SP, 51, RPAREN, SP, STAR, SP, 52>>

\* C1: for literals x, y, z, an additive operator o1 and a multiplicative
\* operator o2, the text "x o1 y o2 z" parses to o1(x, o2(y, z)) and evaluates
\* to x o1 (y o2 z), and "(x o1 y) o2 z" parses to o2(o1(x, y), z) and evaluates
\* to (x o1 y) o2 z; "2 + 3 * 4" gives 14 and "(2 + 3) * 4" gives 20.
C1_Precedence ==
    /\ (Parsed /\ shape.kind = "arith" /\ shape.o1 \in AddOps /\ shape.o2 \in MulOps) =>
          LET x == OperandNode(shape.x)
              y == OperandNode(shape.y)
              z == OperandNode(shape.z)
              vx == OperandValue(shape.x, ctx)
              vy == OperandValue(shape.y, ctx)
              vz == OperandValue(shape.z, ctx)
              want == IF shape.paren
                      THEN Apply2(shape.o2, Apply2(shape.o1, vx, vy), vz)
                      ELSE Apply2(shape.o1, vx, Apply2(shape.o2, vy, vz))
          IN  /\ ~IsErr(ast.err)
              /\ ast.node = IF shape.paren
                            THEN OperationNode(shape.o2, OperationNode(shape.o1, x, y), z)
                            ELSE OperationNode(shape.o1, x, OperationNode(shape.o2, y, z))
              /\ result.done => result.val = want.val /\ result.err = want.err
    /\ (result.done /\ formula = Text2p3t4) => result.val = Num(14) /\ ~IsErr(result.err)
    /\ (result.done /\ formula = TextP2p3Pt4) => result.val = Num(20) /\ ~IsErr(result.err)

C1_Witness == result.done /\ formula = Text2p3t4 /\ result.val = Num(14)

DivByZeroRight(s, c) ==
    LET vy == OperandValue(s.y, c)
    IN  ~IsErr(vy.err) /\ (s.zeroExpr \/ vy.val = Zero)

\* C4: a text "x / y" or "x % y" whose right operand evaluates to exactly 0
\* evaluates to an error and no value; so do "1 / 0" and "1 % 0".
C4_DivModByZeroFails ==
    (shape.kind = "div" /\ result.done /\ DivByZeroRight(shape, ctx)) => IsErr(result.err)

Text5g3g1 == <<53, SP, GT, SP, 51, SP, GT, SP, 49>>

\* C6: for literals x, y, z and comparison operators p, q, the text "x p y q z"
\* parses to Comparison(q, Comparison(p, x, y), z) and evaluates to
\* (x p y) q z on the 0/1 result of the first comparison; "5 > 3 > 1" gives 0.
C6_ChainedComparisonLeft ==
    /\ (Parsed /\ shape.kind = "cmp") =>
          LET x == OperandNode(shape.x)
              y == OperandNode(shape.y)
              z == OperandNode(shape.z)
              first == ApplyComparison(shape.o1, Num(shape.x.k), Num(shape.y.k))
              want == ApplyComparison(shape.o2, first.val, Num(shape.z.k))
          IN  /\ ~IsErr(ast.err)
              /\ ast.node = ComparisonNode(shape.o2, ComparisonNode(shape.o1, x, y), z)
              /\ first.val \in {Zero, One}
              /\ result.done => result.val = want.val /\ ~IsErr(result.err)
    /\ (result.done /\ formula = Text5g3g1) => result.val = Zero /\ ~IsErr(result.err)

C6_Witness == result.done /\ formula = Text5g3g1 /\ result.val = Zero

\* the node a binary operator item builds
BinNode(o, l, r) ==
    IF o.kw # <<>> THEN LogicalNode(o.kw, l, r)
    ELSE IF o.text \in CompOps THEN ComparisonNode(o.text, l, r)
    ELSE OperationNode(o.text, l, r)

TextMApB == <<MINUS, 65, SP, PLUS, SP, 66>>
CtxA3B10 == Ctx((NameA :> Num(3)) @@ (NameB :> Num(10)), TestFunctions)

\* C7: a leading + or - applies to the following factor only: "u x o y" parses
\* to o(Unary(u, x), y) for every binary operator o; Unary - evaluates to the
\* negation of its operand and Unary + to the operand's value; "-A + B" gives
\* 7 when A = 3 and B = 10.
C7_UnaryBindsTighter ==
    /\ (Parsed /\ shape.kind = "unary") =>
          LET x  == OperandNode(shape.x)
              y  == OperandNode(shape.y)
              vx == OperandValue(shape.x, ctx)
              vy == OperandValue(shape.y, ctx)
              sx == IF IsErr(vx.err) THEN vx
                    ELSE [val |-> IF shape.u = OpSub THEN RNeg(vx.val) ELSE vx.val,
                          err |-> NoErr]
              want == IF shape.o.text \in CompOps
                      THEN IF IsErr(sx.err) THEN [val |-> Zero, err |-> sx.err]
                           ELSE IF IsErr(vy.err) THEN [val |-> Zero, err |-> vy.err]
                           ELSE ApplyComparison(shape.o.text, sx.val, vy.val)
                      ELSE Apply2(shape.o.text, sx, vy)
          IN  /\ ~IsErr(ast.err)
              /\ ast.node = BinNode(shape.o, UnaryNode(shape.u, x), y)
              /\ (result.done /\ shape.o.kw = <<>>) =>
                    result.val = want.val /\ result.err = want.err
    /\ (result.done /\ formula = TextMApB /\ ctx = CtxA3B10) =>
          result.val = Num(7) /\ ~IsErr(result.err)

C7_Witness == result.done /\ formula = TextMApB /\ ctx = CtxA3B10 /\ result.val = Num(7)

\* C2: the call form IF(c, t) / IF(c, t, e), also named ЕСЛИ and in any
\* casing, is accepted by ParseString and yields a Conditional node; without
\* else and with a false condition it evaluates to 0.
C2_IfCallAccepted ==
    /\ (Parsed /\ shape.kind = "ifcall") =>
          ~IsErr(ast.err) /\ ast.node.type = NodeTypeConditional
    /\ (result.done /\ shape.kind = "ifcall" /\ ~shape.hasElse
            /\ shape.c = Lit(0) /\ shape.d = Lit(1)) =>
          result.val = Zero /\ ~IsErr(result.err)

\* C3 as stated: the texts "1 OR myFunc()" and "0 AND myFunc()" parse and
\* evaluate to 1 and 0 with no error and without invoking myFunc.
C3_TextShortCircuit ==
    LET claimed == /\ shape.kind = "logiccall"
                   /\ shape.f = NameMyFunc
                   /\ \/ shape.o = KwOR /\ shape.x = Lit(1)
                      \/ shape.o = KwAND /\ shape.x = Lit(0)
    IN  /\ (Parsed /\ claimed) => ~IsErr(ast.err)
        /\ (result.done /\ claimed) =>
              /\ result.val = Bool(shape.o = KwOR)
              /\ ~IsErr(result.err)
              /\ result.calls = <<>>

TextIfStmt ==
    <<73, 70, SP, 65, SP, GT, SP, 49, SP, 84, 72, 69, 78, SP, 50, SP, 69, 76, 83, 69, SP, 51>>
TextEsliStmt ==
    <<1045, 1057, 1051, 1048, SP, 65, SP, GT, SP, 49, SP, 1058, 1054, 1043, 1044, 1040,
      SP, 50, SP, 1048, 1053, 1040, 1063, 1045, SP, 51>>
CtxA5 == Ctx((NameA :> Num(5)), TestFunctions)

\* C5: replacing every Latin keyword of a text by its Cyrillic counterpart, in
\* any casing, gives the same sequence of token kinds and an AST (or a parse
\* failure of the same kind) that evaluates to the same result on the same
\* context; "IF A > 1 THEN 2 ELSE 3" and its Cyrillic form give 2 when A = 5.
C5_BilingualEquivalence ==
    /\ (Parsed /\ HasLang(shape) /\ shape.lang = "latin") =>
          \A casing \in Casings :
             LET cyr == RenderIn(shape, "cyrillic", casing)
                 p   == ParseString(cyr)
             IN  /\ TokenKinds(cyr) = TokenKinds(formula)
                 /\ p.node = ast.node
                 /\ p.err.msg = ast.err.msg
                 /\ result.done =>
                       LET r == Evaluate(p.node, ctx)
                       IN  r.val = result.val /\ r.err = result.err
    /\ (result.done /\ formula = TextIfStmt /\ ctx = CtxA5) =>
          /\ result.val = Num(2)
          /\ RenderIn(shape, "cyrillic", "upper") = TextEsliStmt
          /\ Evaluate(ParseString(TextEsliStmt).node, ctx).val = Num(2)

C5_Witness == result.done /\ formula = TextIfStmt /\ ctx = CtxA5 /\ result.val = Num(2)

\* the two cases in which a Logical node over a literal left operand x must
\* not evaluate its right operand
LeftDecides(o, x) == (o = KwOR /\ x # 0) \/ (o = KwAND /\ x = 0)

\* C3 (amended): ParseString rejects the texts "x OR f()" and "x AND f()" with
\* an unknown-function error, so nothing is evaluated; on the tree
\* Logical(OR, x, f()) with a nonzero literal x evaluation returns 1, and on
\* Logical(AND, 0, f()) it returns 0, with no error and without invoking f,
\* also when the context binds f to a function that always fails.
C3_TreeShortCircuit ==
    /\ (Parsed /\ shape.kind = "logiccall") =>
          ast.node = Nil /\ ast.err = Errorf("unknown function: %s", shape.f)
    /\ shape.kind = "logiccall" => ~result.done
    /\ \A x \in 0..MaxLeaf, o \in {KwOR, KwAND}, f \in {NameMyFunc, NameSum} :
          (/\ result.done
           /\ ast.node = LogicalNode(o, LiteralNode(Num(x)), FunctionNode(f, <<>>))
           /\ LeftDecides(o, x)) =>
              /\ result.val = Bool(o = KwOR)
              /\ ~IsErr(result.err)
              /\ result.calls = <<>>

C3_Witness ==
    /\ result.done
    /\ ast.node = LogicalNode(KwOR, LiteralNode(One), FunctionNode(NameMyFunc, <<>>))
    /\ ctx.Functions[NameMyFunc] = FnAlwaysError
    /\ result.val = One
    /\ result.calls = <<>>

SameResult(a, b) == a.val = b.val /\ a.err = b.err

\* C8: when a built tree has been serialized and deserialized, the
\* deserialization has succeeded and the tree it returned evaluates to the
\* same value or error as the built tree on every context.
C8_RoundTrip ==
    ast.src = "unmarshal" =>
        /\ ~IsErr(ast.err)
        /\ \A c \in Contexts : SameResult(Evaluate(ast.node, c), Evaluate(tree, c))

\* the errors of a result that carry one of the given codes, in order
WithCodes(errors, codes) == SelectSeq(errors, LAMBDA e : e.Code \in codes)

CodesOf(errors) == {errors[k].Code : k \in DOMAIN errors}

CyrillicOrders(text) == Orders(DOMAIN extractCyrillicWords(text))

EarlyCodes ==
    {"EMPTY_FORMULA", "FORMULA_TOO_LONG", "INVALID_CHARACTER", "INVALID_CYRILLIC_WORD",
     "EXTRA_CLOSING_PAREN", "MISSING_CLOSING_PAREN", "INVALID_OPERATOR_SEQUENCE",
     "FORMULA_ENDS_WITH_OPERATOR"}

SyntaxCodes == {"UNEXPECTED_TOKEN", "SYNTAX_ERROR"}

\* what C9 says of one result r of ValidateFormula(text)
CollectsAll(text, r) ==
    /\ WithCodes(r.Errors, {"EMPTY_FORMULA", "FORMULA_TOO_LONG"})
          = validateBasicStructure(text)
    /\ WithCodes(r.Errors, {"INVALID_CHARACTER"}) = validateCharacters(text)
    /\ \E order \in CyrillicOrders(text) :
          WithCodes(r.Errors, {"INVALID_CYRILLIC_WORD"}) = validateCyrillicUsage(text, order)
    /\ WithCodes(r.Errors, {"EXTRA_CLOSING_PAREN", "MISSING_CLOSING_PAREN"})
          = validateParentheses(text)
    /\ WithCodes(r.Errors, {"INVALID_OPERATOR_SEQUENCE", "FORMULA_ENDS_WITH_OPERATOR"})
          = validateOperators(text)
    /\ WithCodes(r.Errors, SyntaxCodes)
          = IF WithCodes(r.Errors, EarlyCodes) = <<>> THEN validateSyntax(text) ELSE <<>>
    /\ "SYNTAX_ERROR" \in CodesOf(r.Errors) => Len(r.Errors) = 1
    /\ (validateCharacters(text) # <<>> /\ validateParentheses(text) # <<>>) =>
          /\ "INVALID_CHARACTER" \in CodesOf(r.Errors)
          /\ CodesOf(r.Errors) \cap {"EXTRA_CLOSING_PAREN", "MISSING_CLOSING_PAREN"} # {}

\* C9: every result of ValidateFormula holds the errors of each of the
\* structural, character, Cyrillic-word, parenthesis and operator stages, as
\* that stage reports them on its own, whatever the other stages reported; the
\* tokenize+parse stage contributes exactly when none of them reported an
\* error, so SYNTAX_ERROR is never accompanied by another error; a text with
\* an illegal character and an unbalanced parenthesis gets both diagnostics.
C9_CollectsAllStages ==
    \A k \in DOMAIN validations : CollectsAll(formula, validations[k])

TextAtParen == <<64, LPAREN>>

C9_Witness ==
    /\ formula = TextAtParen
    /\ validations # <<>>
    /\ CodesOf(validations[1].Errors) = {"INVALID_CHARACTER", "MISSING_CLOSING_PAREN"}

\* C10: two calls of ValidateFormula on the same text return identical
\* results: the same IsValid, the same errors in the same order, the same
\* warnings in the same order.
C10_Deterministic ==
    Len(validations) >= 2 => validations[1] = validations[2]

NoPositionCodes ==
    {"EMPTY_FORMULA", "FORMULA_TOO_LONG", "MISSING_CLOSING_PAREN", "SYNTAX_ERROR"}

\* C11: in every result of ValidateFormula an error that has no source
\* position (EMPTY_FORMULA, FORMULA_TOO_LONG, MISSING_CLOSING_PAREN,
\* SYNTAX_ERROR) carries position -1, so Error() prints no position for it,
\* and an error with a non-negative position points at a character of the
\* formula.
C11_NoPositionIsMinusOne ==
    \A k \in DOMAIN validations : \A j \in DOMAIN validations[k].Errors :
        LET e == validations[k].Errors[j]
        IN  /\ e.Code \in NoPositionCodes => e.Position = -1 /\ ~PrintsPosition(e)
            /\ e.Position >= 0 => e.Position < ByteLenOf(formula)

\* the token after a complete expression that cannot continue it
CannotContinue(tok) ==
    /\ tok.Type \notin {TokenOr, TokenAnd}
    /\ ~(tok.Type = TokenOperator /\ tok.Value \in ArithOps \cup CompOps)

SameToken(a, b) == a.Type = b.Type /\ a.Value = b.Value

\* the tokens of text begin with the tokens of the expression base, and the
\* token after them cannot continue it
PrefixThenStop(base, text) ==
    LET tb == Tokenize(base)
        tt == Tokenize(text)
        n  == Len(tb) - 1
    IN  /\ Len(tt) > n
        /\ \A i \in 1..n : SameToken(tb[i], tt[i])
        /\ CannotContinue(tt[n + 1])

\* the rule of C12 on the text in hand
TrailingIgnored ==
    (Parsed /\ shape.kind = "trail" /\ PrefixThenStop(shape.base.text, formula)) =>
        ast.node = shape.base.node /\ ~IsErr(ast.err)

TextAB == <<65, 32, 66>>
Text1p2s3 == <<49, 32, 43, 32, 50, 32, 51>>
Text1p2sB == <<49, 32, 43, 32, 50, 32, 66>>

\* C12 as stated: a complete expression followed by a token that cannot
\* continue it parses to the tree of that expression with no error; "A B"
\* parses to A and "1 + 2 3" parses to 1 + 2.
C12_TrailingIgnored ==
    /\ TrailingIgnored
    /\ (Parsed /\ formula = TextAB) => ast.node = VariableNode(NameA) /\ ~IsErr(ast.err)
    /\ (Parsed /\ formula = Text1p2s3) =>
          /\ ast.node = OperationNode(OpAdd, LiteralNode(One), LiteralNode(Num(2)))
          /\ ~IsErr(ast.err)

\* C12 (amended): the same rule on the token stream, where the space between
\* two digits is removed before tokenizing: "A B" parses to A and "1 + 2 B"
\* to 1 + 2, while "1 + 2 3" is the text "1+23" and parses to 1 + 23.
C12_TrailingTokensIgnored ==
    /\ TrailingIgnored
    /\ (Parsed /\ formula = TextAB) => ast.node = VariableNode(NameA) /\ ~IsErr(ast.err)
    /\ (Parsed /\ formula = Text1p2sB) =>
          /\ ast.node = OperationNode(OpAdd, LiteralNode(One), LiteralNode(Num(2)))
          /\ ~IsErr(ast.err)
    /\ (Parsed /\ formula = Text1p2s3) =>
          /\ ast.node = OperationNode(OpAdd, LiteralNode(One), LiteralNode(Num(23)))
          /\ ~IsErr(ast.err)

C12_Witness ==
    Parsed /\ formula = Text1p2sB /\ ~IsErr(ast.err)
        /\ ast.node = OperationNode(OpAdd, LiteralNode(One), LiteralNode(Num(2)))

RECURSIVE HasFunctionNode(_)
HasFunctionNode(n) ==
    IF n.type = NodeTypeFunction THEN TRUE
    ELSE IF n.type \in {NodeTypeOperation, NodeTypeComparison, NodeTypeLogical}
    THEN HasFunctionNode(n.Left) \/ HasFunctionNode(n.Right)
    ELSE IF n.type = NodeTypeUnary THEN HasFunctionNode(n.Operand)
    ELSE IF n.type = NodeTypeConditional
    THEN HasFunctionNode(n.Condition) \/ HasFunctionNode(n.Then) \/ HasFunctionNode(n.Else)
    ELSE FALSE

\* C13: when a call f(...) with a name other than IF stands where the parser
\* expects an operand, ParseString returns an "unknown function" error naming
\* f and no tree; no tree ParseString returns for any text holds a Function
\* node.
C13_NoFunctionFromText ==
    /\ (Parsed /\ shape.kind = "call") =>
          /\ ast.node = Nil
          /\ ast.err.msg # <<>>
          /\ ast.err.msg[Len(ast.err.msg)] = "unknown function: %s"
          /\ ast.err.arg = shape.f
    /\ Parsed => ~HasFunctionNode(ast.node)

TextSumCall == <<115, 117, 109, LPAREN, 49, RPAREN>>

C13_Witness ==
    Parsed /\ formula = TextSumCall /\ ast.node = Nil
        /\ ast.err = Errorf("unknown function: %s", NameSum)

\* what C14 says of the result res of evaluating the Logical node n on c
LogicalAsClaimed(n, c, res) ==
    LET l == Evaluate(n.Left, c)
        r == Evaluate(n.Right, c)
        decided == \/ n.Operator = KwOR /\ l.val # Zero
                   \/ n.Operator = KwAND /\ l.val = Zero
    IN  ~IsErr(l.err) =>
            IF decided
            THEN /\ res.val = Bool(n.Operator = KwOR)
                 /\ ~IsErr(res.err)
                 /\ res.calls = l.calls
            ELSE /\ res.calls = l.calls \o r.calls
                 /\ res.err = r.err
                 /\ ~IsErr(r.err) => res.val = Bool(r.val # Zero)

\* C14: evaluating an OR node whose left operand is nonzero gives 1, and an
\* AND node whose left operand is 0 gives 0, without evaluating the right
\* subtree: no error of it is reported and no function in it is invoked;
\* otherwise the right subtree is evaluated exactly once and the result is 1
\* when it is nonzero, else 0.
C14_LogicalShortCircuit ==
    (result.done /\ ast.node.type = NodeTypeLogical /\ ast.node.Operator \in {KwOR, KwAND}) =>
        LogicalAsClaimed(ast.node, ctx, result)

CtxA0B1 == Ctx((NameA :> Num(0)) @@ (NameB :> Num(1)), TestFunctions)

\* (A > 1) AND sum(1, A) with A = 0: the call is skipped
C14_Witness ==
    /\ result.done
    /\ ast.node = LogicalNode(KwAND,
                      ComparisonNode(OpGt, VariableNode(NameA), LiteralNode(One)),
                      FunctionNode(NameSum, <<LiteralNode(One), VariableNode(NameA)>>))
    /\ ctx = CtxA0B1
    /\ result.val = Zero
    /\ result.calls = <<>>

\* C15: evaluating a Variable node whose name is not a key of the context's
\* variable map returns an error and no value; when the name is a key,
\* compared exactly, it returns the bound value, also when that value is 0.
C15_VariableLookup ==
    (result.done /\ ast.node.type = NodeTypeVariable) =>
        IF ast.node.Name \in DOMAIN ctx.Variables
        THEN result.val = ctx.Variables[ast.node.Name] /\ ~IsErr(result.err)
        ELSE /\ result.err = Errorf("variable '%s' not found %w", ast.node.Name)
             /\ result.val = Zero

\* the name a is looked up in a context that binds A
C15_Witness ==
    /\ result.done
    /\ ast.node = VariableNode(NameLowerA)
    /\ NameA \in DOMAIN ctx.Variables
    /\ IsErr(result.err)

\* what C16 says of the result res of evaluating the Conditional node n on c
ConditionalAsClaimed(n, c, res) ==
    LET cond == Evaluate(n.Condition, c)
        branch == IF cond.val # Zero THEN n.Then ELSE n.Else
    IN  ~IsErr(cond.err) =>
            IF branch = Nil
            THEN res.val = Zero /\ ~IsErr(res.err) /\ res.calls = cond.calls
            ELSE /\ res.val = Evaluate(branch, c).val
                 /\ res.err = Evaluate(branch, c).err
                 /\ res.calls = cond.calls \o Evaluate(branch, c).calls

\* C16: a Conditional node evaluates its condition and then exactly one
\* branch: Then when the condition is any nonzero number, Else when it is 0
\* and Else is present; with the condition 0 and no Else it returns 0 and no
\* error.  The other branch is not evaluated: it contributes no error and no
\* invocation.
C16_ConditionalSelectsOneBranch ==
    (result.done /\ ast.node.type = NodeTypeConditional) =>
        ConditionalAsClaimed(ast.node, ctx, result)

\* condition 2, the Else branch would fail
C16_Witness ==
    /\ result.done
    /\ ast.node = ConditionalNode(LiteralNode(Num(2)), LiteralNode(One),
                                  FunctionNode(NameMyFunc, <<>>))
    /\ result.val = One
    /\ ~IsErr(result.err)
    /\ result.calls = <<>>

TokenTypes ==
    {TokenNumber, TokenVariable, TokenOperator, TokenParenOpen, TokenParenClose,
     TokenComma, TokenFunction, TokenEOF, TokenThen, TokenIf, TokenElse,
     TokenOr, TokenAnd}

\* the i-th NextToken call returned EndOfInput
ReturnedEOF(i) == lexer.calls[i].tok.Type = TokenEOF

\* C17: the tokenizer never fails and always reaches the end.  For a text of
\* n characters every NextToken call returns a token; a call returning a
\* token other than EndOfInput strictly advances the cursor, which stays
\* within 0..n; EndOfInput is returned within the first n+1 calls; and every
\* call after the first EndOfInput returns EndOfInput with the cursor
\* unchanged.
C17_TokenizerReachesEnd ==
    lexer.made =>
        /\ lexer.pos \in 0..Len(formula)
        /\ \A i \in DOMAIN lexer.calls :
              /\ lexer.calls[i].tok.Type \in TokenTypes
              /\ lexer.calls[i].to \in 0..Len(formula)
              /\ ~ReturnedEOF(i) => lexer.calls[i].to > lexer.calls[i].from
              /\ \A j \in DOMAIN lexer.calls :
                    (j < i /\ ReturnedEOF(j)) =>
                        /\ ReturnedEOF(i)
                        /\ lexer.calls[i].to = lexer.calls[i].from
        /\ Len(lexer.calls) > Len(formula) =>
              \E i \in 1..(Len(formula) + 1) : ReturnedEOF(i)

\* ">=@": one operator, then EndOfInput reached by skipping '@', then
\* EndOfInput again
C17_Witness ==
    /\ formula = <<GT, EQ, 64>>
    /\ Len(lexer.calls) = 3
    /\ lexer.calls[1] = [tok |-> Token(TokenOperator, <<GT, EQ>>, 0), from |-> 0, to |-> 2]
    /\ lexer.calls[2] = [tok |-> Token(TokenEOF, <<>>, 3), from |-> 2, to |-> 3]
    /\ lexer.calls[3] = [tok |-> Token(TokenEOF, <<>>, 3), from |-> 3, to |-> 3]

\* the node C18 expects of "x op y"
BinopNode(op, x, y) ==
    IF isComparisonOp(op)
    THEN ComparisonNode(op, LiteralNode(Num(x)), LiteralNode(Num(y)))
    ELSE OperationNode(op, LiteralNode(Num(x)), LiteralNode(Num(y)))

\* the tokens C18 expects of "x op y"; the text passes through NewLexer,
\* which drops the spaces
BinopTokens(s) ==
    <<Token(TokenNumber, DigitsOf(s.x), 0),
      Token(TokenOperator, s.op, 1),
      Token(TokenNumber, DigitsOf(s.y), 1 + Len(s.op)),
      Token(TokenEOF, <<>>, 2 + Len(s.op))>>

\* C18: every operator of the text grammar, + - * / ^ ** % > < >= <= = !=,
\* is recognized in formula text: the tokenizer emits an Operator token for
\* it, the parser builds the matching Operation or Comparison node, and the
\* arithmetic ones evaluate to the operation's value ("2 ^ 3" and "2 ** 3"
\* to 8, "7 % 4" to 3).
C18_EveryOperatorRecognized ==
    (shape.kind = "binop" /\ Parsed) =>
        /\ Tokenize(formula) = BinopTokens(shape)
        /\ ~IsErr(ast.err)
        /\ ast.node = BinopNode(shape.op, shape.x, shape.y)
        /\ (result.done /\ ~isComparisonOp(shape.op)) =>
              /\ ~IsErr(result.err)
              /\ result.val = ApplyOperation(shape.op, Num(shape.x), Num(shape.y)).val

\* the Cyrillic runs of the text that are not keywords, each with the rune
\* position it starts at
CyrillicIdentifiers(text) ==
    {<<o.word, o.start>> : o \in
        {CyrillicOccurrences(text, 0)[k] : k \in DOMAIN CyrillicOccurrences(text, 0)}
        \ {o \in {CyrillicOccurrences(text, 0)[k] : k \in DOMAIN CyrillicOccurrences(text, 0)} :
              ToUpper(o.word) \in keywords}}

\* every check of the validator other than the one on Cyrillic words passes
OtherwiseWellFormed(text) ==
    /\ validateBasicStructure(text) = <<>>
    /\ validateCharacters(text) = <<>>
    /\ validateParentheses(text) = <<>>
    /\ validateOperators(text) = <<>>
    /\ validateSyntax(text) = <<>>

\* the INVALID_CYRILLIC_WORD errors of a result, as <<word, position>>
CyrillicErrors(v) ==
    {<<v.Errors[k].Message.arg, v.Errors[k].Position>> :
        k \in {j \in DOMAIN v.Errors : v.Errors[j].Code = "INVALID_CYRILLIC_WORD"}}

\* C19 as stated: a formula that is otherwise well-formed and whose
\* identifiers are Cyrillic letter runs not equal to a keyword is reported
\* valid by ValidateFormula, with no error attached to those identifiers.
C19_CyrillicIdentifiersValid ==
    \A k \in DOMAIN validations :
        (OtherwiseWellFormed(formula) /\ CyrillicIdentifiers(formula) # {}) =>
            /\ validations[k].IsValid
            /\ CyrillicErrors(validations[k]) = {}

\* what ValidateFormula does with Cyrillic runs: one INVALID_CYRILLIC_WORD
\* error, at the run's position, for every occurrence of a Cyrillic run that
\* is not a keyword, and for nothing else; a formula with such a run is
\* invalid even when every other check passes, and one whose Cyrillic runs
\* are all keywords gets no such error.
CyrillicIdentifiersRejected ==
    \A k \in DOMAIN validations :
        /\ CyrillicErrors(validations[k]) = CyrillicIdentifiers(formula)
        /\ CyrillicIdentifiers(formula) # {} => ~validations[k].IsValid
        /\ (OtherwiseWellFormed(formula) /\ CyrillicIdentifiers(formula) = {}) =>
              validations[k].IsValid

\* "Ц + 1" is invalid, its one error is on the identifier
C19_Witness ==
    /\ formula = TextTsePlus1
    /\ OtherwiseWellFormed(formula)
    /\ Len(validations) = 1
    /\ ~validations[1].IsValid
    /\ Len(validations[1].Errors) = 1
    /\ CyrillicErrors(validations[1]) = {<<(<<1062>>), 0>>}

\* caller i got what Evaluate returns on the tree with its context alone
ReturnsAsAlone(i) ==
    /\ evals.run[i].ret.val = Evaluate(tree, evals.run[i].ctx).val
    /\ evals.run[i].ret.err = Evaluate(tree, evals.run[i].ctx).err

\* a step writes neither to the tree nor to the context of a running caller
NoSharedWrite ==
    /\ ast' = ast
    /\ \A i \in Evaluators :
          evals.run[i].started => evals'.run[i].ctx = evals.run[i].ctx

\* C20: two evaluations of the same tree, each with a context of its own
\* and interleaved in any order at the granularity of node evaluations, each
\* return the result (value or error) they return when run alone, and no
\* evaluation step writes to the tree or to either context.
C20_ConcurrentEvaluation ==
    /\ [](\A i \in Evaluators : evals.run[i].done => ReturnsAsAlone(i))
    /\ [][NoSharedWrite]_vars

\* A + B evaluated by two callers whose evaluations overlapped: one has A
\* and B and gets 13, the other has no B and gets the error
C20_Witness ==
    /\ tree = OperationNode(OpAdd, VariableNode(NameA), VariableNode(NameB))
    /\ evals.overlapped
    /\ evals.run[1].done
    /\ evals.run[2].done
    /\ evals.run[1].ret = [val |-> Num(13), err |-> NoErr]
    /\ IsErr(evals.run[2].ret.err)
    /\ ast.node = tree

\* the arguments of the Function node n, each evaluated on c by itself
ArgResults(n, c) == [k \in DOMAIN n.Args |-> Evaluate(n.Args[k], c)]

\* the arguments of n that fail on c
FailingArgs(n, c) == {k \in DOMAIN n.Args : IsErr(ArgResults(n, c)[k].err)}

\* the invocations made by the first k arguments, in order
ArgCallsUpTo(n, c, k) == Cat([j \in 1..k |-> ArgResults(n, c)[j].calls])

\* what C21 says of the result res of evaluating the Function node n on c
FunctionAsClaimed(n, c, res) ==
    IF n.Name \notin DOMAIN c.Functions
    THEN /\ res.err = Errorf("function '%s' not found", n.Name)
         /\ res.calls = <<>>
    ELSE IF FailingArgs(n, c) # {}
    THEN \E k \in FailingArgs(n, c) :
            /\ \A j \in FailingArgs(n, c) : k <= j
            /\ res.err = ArgResults(n, c)[k].err
            /\ res.calls = ArgCallsUpTo(n, c, k)
    ELSE /\ res.calls =
                Append(ArgCallsUpTo(n, c, Len(n.Args)),
                       [name |-> n.Name,
                        args |-> [k \in DOMAIN n.Args |-> ArgResults(n, c)[k].val]])
         /\ res.val = CallFn(c.Functions[n.Name],
                             [k \in DOMAIN n.Args |-> ArgResults(n, c)[k].val]).val
         /\ res.err = CallFn(c.Functions[n.Name],
                             [k \in DOMAIN n.Args |-> ArgResults(n, c)[k].val]).err

\* C21: a Function node looks its name up first and, when it is absent,
\* returns the not-found error with no argument evaluated; otherwise it
\* evaluates the arguments left to right, stops at the first one that fails
\* and returns its error without invoking the function; when all succeed it
\* invokes the function once with the values in order and returns its value
\* or error unchanged.
C21_FunctionEvaluation ==
    (result.done /\ ast.node.type = NodeTypeFunction) =>
        FunctionAsClaimed(ast.node, ctx, result)

\* sum(myFunc(), sum()): the first argument fails, so neither the second
\* argument nor sum itself is invoked
C21_Witness ==
    /\ result.done
    /\ ast.node = FunctionNode(NameSum, <<FunctionNode(NameMyFunc, <<>>),
                                          FunctionNode(NameSum, <<>>)>>)
    /\ result.err = Errorf("function failed", <<>>)
    /\ result.calls = <<[name |-> NameMyFunc, args |-> <<>>]>>

OperatorErrors ==
    {Errorf("division by zero", <<>>), Errorf("modulo by zero", <<>>)}
        \cup {Errorf("unknown operator: %s", OpUnknown),
              Errorf("unknown comparison operator: %s", OpEqEq)}

\* what C22 says of the result res of evaluating the Operation or Comparison
\* node n on c
FailFastAsClaimed(n, c, res) ==
    /\ IsErr(Evaluate(n.Left, c).err) =>
          /\ res.err = Evaluate(n.Left, c).err
          /\ res.calls = Evaluate(n.Left, c).calls
    /\ ~IsErr(Evaluate(n.Left, c).err) =>
          /\ res.calls = Evaluate(n.Left, c).calls \o Evaluate(n.Right, c).calls
          /\ IsErr(Evaluate(n.Right, c).err) => res.err = Evaluate(n.Right, c).err
    /\ (IsErr(Evaluate(n.Left, c).err) \/ IsErr(Evaluate(n.Right, c).err)) =>
          (res.err \in OperatorErrors =>
              res.err \in {Evaluate(n.Left, c).err, Evaluate(n.Right, c).err})
    /\ IsErr(res.err) => res.val = Zero

\* C22: Operation and Comparison nodes evaluate the left operand first and
\* return its error without evaluating the right one; otherwise the right
\* operand is always evaluated and its error returned if it fails;
\* division-by-zero, modulo-by-zero and unknown-operator errors are reported
\* only when both operands evaluated without error; on every error the value
\* returned is 0.
C22_BinaryFailFast ==
    (result.done /\ ast.node.type \in {NodeTypeOperation, NodeTypeComparison}) =>
        FailFastAsClaimed(ast.node, ctx, result)

\* C / myFunc(): the unbound C fails first, myFunc is not invoked
C22_Witness ==
    /\ result.done
    /\ ast.node = OperationNode(OpDiv, VariableNode(NameC), FunctionNode(NameMyFunc, <<>>))
    /\ result.err = Errorf("variable '%s' not found %w", NameC)
    /\ result.val = Zero
    /\ result.calls = <<>>

\* the token the tokenizer makes of a run of letters or of digits
RunType(run) == IF IsDigit(run[1]) THEN TokenNumber ELSE TokenVariable

\* the first calls on the Lexer returned the tokens of values vs, then
\* EndOfInput
LexedAs(vs) ==
    Len(lexer.calls) > Len(vs) =>
        /\ \A k \in DOMAIN vs : lexer.calls[k].tok.Value = vs[k]
        /\ lexer.calls[Len(vs) + 1].tok.Type = TokenEOF

\* C23: when two letter runs, or a letter run and a digit run, are separated
\* by one or more spaces the tokenizer yields one token for each run, never
\* one merged token, while spaces next to operators and commas are dropped:
\* "A B" and "A   B" lex as Variable A, Variable B and "A + B" as A, +, B.
C23_WordBoundariesKept ==
    \A l \in LetterRuns \cup DigitRuns, r \in LetterRuns \cup DigitRuns, n \in 1..MaxGap :
        /\ (formula = l \o Spaces(n) \o r /\ formula \in GapTexts) =>
              /\ LexedAs(<<l, r>>)
              /\ Len(lexer.calls) > 1 =>
                    /\ lexer.calls[1].tok.Type = RunType(l)
                    /\ lexer.calls[2].tok.Type = RunType(r)
        /\ \A s \in {PLUS, GT, COMMA} :
              formula = l \o Spaces(n) \o <<s>> \o Spaces(n) \o r => LexedAs(<<l, <<s>>, r>>)

\* how many of the first j characters of text are ch
CountIn(text, ch, j) == Cardinality({i \in 1..j : text[i] = ch})

\* the 0-based indices of the ')' that have more ')' than '(' up to and
\* including them
ExcessClosers(text) ==
    {i - 1 : i \in {j \in DOMAIN text :
                      text[j] = RPAREN /\ CountIn(text, RPAREN, j) > CountIn(text, LPAREN, j)}}

\* the '(' left unmatched at the end
Unmatched(text) == CountIn(text, LPAREN, Len(text)) - CountIn(text, RPAREN, Len(text))

\* the errors of the parenthesis check in a result
ParenErrors(v) ==
    SelectSeq(v.Errors,
              LAMBDA e : e.Code \in {"EXTRA_CLOSING_PAREN", "MISSING_CLOSING_PAREN"})

\* C24: the parenthesis check reports at most one error: EXTRA_CLOSING_PAREN
\* at the index of the first ')' that makes the count of ')' exceed that of
\* '(', and nothing more; otherwise MISSING_CLOSING_PAREN stating k when
\* k > 0 '(' remain unmatched at the end; otherwise nothing.
C24_ParenthesisCheck ==
    \A n \in DOMAIN validations :
        /\ Len(ParenErrors(validations[n])) <= 1
        /\ IF ExcessClosers(formula) # {}
           THEN /\ Len(ParenErrors(validations[n])) = 1
                /\ ParenErrors(validations[n])[1].Code = "EXTRA_CLOSING_PAREN"
                /\ ParenErrors(validations[n])[1].Position \in ExcessClosers(formula)
                /\ \A i \in ExcessClosers(formula) :
                      ParenErrors(validations[n])[1].Position <= i
           ELSE IF Unmatched(formula) > 0
           THEN /\ Len(ParenErrors(validations[n])) = 1
                /\ ParenErrors(validations[n])[1].Code = "MISSING_CLOSING_PAREN"
                /\ ParenErrors(validations[n])[1].Message.arg = <<Unmatched(formula)>>
           ELSE ParenErrors(validations[n]) = <<>>

\* ")((": the extra ')' at index 0 is reported and the two unmatched '(' are
\* not
C24_Witness ==
    /\ formula = <<RPAREN, LPAREN, LPAREN>>
    /\ Len(validations) = 1
    /\ Len(ParenErrors(validations[1])) = 1
    /\ ParenErrors(validations[1])[1].Code = "EXTRA_CLOSING_PAREN"
    /\ ParenErrors(validations[1])[1].Position = 0

\* C25: a formula with two binary operators in a row between its operands,
\* written with or without a space between them ("A + + B", "A ++ B"), is
\* reported invalid by ValidateFormula and by QuickValidate.
C25_DoubleOperatorInvalid ==
    formula \in DoubleOpTexts =>
        /\ \A n \in DOMAIN validations : ~validations[n].IsValid
        /\ validations # <<>> =>
              \A order \in Orders(DOMAIN extractCyrillicWords(formula)) :
                  ~QuickValidate(formula, order)

\* C26: the tokenizer prefers the compounds >=, <=, == and != over their
\* one-character prefix, and the parser accepts every compound it emits as a
\* comparison operator: "A >= B", "A <= B", "A != B" and "A == B" each parse
\* to a Comparison node over A and B ("A == B" meaning equality), never to
\* the bare operand A with the rest of the input dropped.
C26_CompoundsAccepted ==
    (shape.kind = "compound" /\ Parsed) =>
        /\ KindsOf(Tokenize(formula)) =
              <<TokenVariable, TokenOperator, TokenVariable, TokenEOF>>
        /\ Tokenize(formula)[2].Value = shape.op
        /\ ~IsErr(ast.err)
        /\ ast.node \in
              {ComparisonNode(o, VariableNode(NameA), VariableNode(NameB)) :
                  o \in IF shape.op = OpEqEq THEN {OpEqEq, OpEq} ELSE {shape.op}}

\* the length check reported FORMULA_TOO_LONG
TooLongReported ==
    \E k \in DOMAIN structure.errors : structure.errors[k].Code = "FORMULA_TOO_LONG"

\* C27: the length check counts characters: FORMULA_TOO_LONG is reported
\* exactly when the whitespace-trimmed formula has more than 1000
\* characters, for Latin and Cyrillic text alike.
C27_LengthCountsCharacters ==
    structure.done => (TooLongReported <=> Len(TrimSpace(formula)) > 1000)

UnknownOperatorFormats ==
    {"unknown operator: %s", "unknown comparison operator: %s",
     "unknown logical operator: %s", "unknown unary operator: %s"}

\* every operator in the tree n is one the evaluator knows, and no child is
\* nil except an absent Else
RECURSIVE OnlyKnownOperators(_)
OnlyKnownOperators(n) ==
    IF n.type = NodeTypeOperation
    THEN /\ n.Operator \in {OpAdd, OpSub, OpMul, OpDiv}
         /\ OnlyKnownOperators(n.Left) /\ OnlyKnownOperators(n.Right)
    ELSE IF n.type = NodeTypeComparison
    THEN /\ n.Operator \in {OpEq, OpNe, OpGt, OpLt, OpGe, OpLe}
         /\ OnlyKnownOperators(n.Left) /\ OnlyKnownOperators(n.Right)
    ELSE IF n.type = NodeTypeLogical
    THEN /\ n.Operator \in {KwAND, KwOR}
         /\ OnlyKnownOperators(n.Left) /\ OnlyKnownOperators(n.Right)
    ELSE IF n.type = NodeTypeUnary
    THEN n.Operator \in {OpAdd, OpSub} /\ OnlyKnownOperators(n.Operand)
    ELSE IF n.type = NodeTypeConditional
    THEN /\ OnlyKnownOperators(n.Condition) /\ OnlyKnownOperators(n.Then)
         /\ n.Else = Nil \/ OnlyKnownOperators(n.Else)
    ELSE IF n.type = NodeTypeFunction
    THEN \A k \in DOMAIN n.Args : OnlyKnownOperators(n.Args[k])
    ELSE n.type \in {NodeTypeLiteral, NodeTypeVariable}

\* C28: every AST that Parse returns carries only operators the evaluator
\* knows and has no nil child except an absent Else, so evaluating it never
\* returns an unknown-operator error; whenever an evaluation does return
\* one, the tree did not come from the parser.
C28_ParserEmitsKnownOperators ==
    /\ ParsedOk =>
          /\ OnlyKnownOperators(ast.node)
          /\ \A c \in Contexts : Evaluate(ast.node, c).err.msg \notin
                {<<f>> : f \in UnknownOperatorFormats}
    /\ (result.done /\ result.err.msg \in {<<f>> : f \in UnknownOperatorFormats}) =>
          ast.src \in {"built", "unmarshal"}

\* "1 + 2 * 3" parsed and evaluated, and no error
C28_Witness ==
    /\ ParsedOk
    /\ ast.node = OperationNode(OpAdd, LiteralNode(Num(1)),
                                OperationNode(OpMul, LiteralNode(Num(2)), LiteralNode(Num(3))))
    /\ result.done
    /\ ~IsErr(result.err)
    /\ result.val = Num(7)

\* C29: in every result of ValidateFormula, IsValid is true if and only if
\* the error list is empty; the warnings do not change IsValid, and they are
\* those of the text whether it is valid or not.
C29_ValidIffNoErrors ==
    \A n \in DOMAIN validations :
        /\ validations[n].IsValid <=> validations[n].Errors = <<>>
        /\ validations[n].Warnings = generateWarnings(formula)

\* a valid formula with a warning
C29_Witness ==
    /\ Len(validations) = 1
    /\ validations[1].IsValid
    /\ validations[1].Errors = <<>>
    /\ validations[1].Warnings # <<>>

\* C30: the validator never accepts what the parser rejects: when
\* ValidateFormula returns IsValid = true, ParseString on the same text
\* returns an AST and no error.
C30_ValidImpliesParses ==
    \A n \in DOMAIN validations :
        validations[n].IsValid =>
            /\ ~IsErr(ParseString(formula).err)
            /\ ParseString(formula).node # Nil

\* "A+1" is valid and parses to A + 1
C30_Witness ==
    /\ formula = <<65, PLUS, 49>>
    /\ Len(validations) = 1
    /\ validations[1].IsValid
    /\ ParseString(formula) =
          [node |-> OperationNode(OpAdd, VariableNode(NameA), LiteralNode(One)),
           err |-> NoErr]

====
